---- MODULE Spec2Model ----
(***************************************************************************)
(* State-machine model of the CortexAI plugin handlers.                    *)
(*                                                                         *)
(* The host invokes one tool at a time (variable call).  A handler is an   *)
(* async function: its body runs in steps separated by awaits, and the     *)
(* events of the Node http client and of the headless browser arrive       *)
(* between those steps.  JS strings whose byte length matters are          *)
(* sequences of code points; JSON texts are represented by the object      *)
(* they encode, JSON.stringify dropping the properties that are undefined. *)
(***************************************************************************)
EXTENDS Integers, Sequences, FiniteSets, TLC

VARIABLES call, wr, br, hostException, leakedBrowsers,
          ws, mw, an, fsop, disk, written, proc, registry, peer

\* the search coroutine, the analysis plugin's request and coroutine, the
\* filesystem handlers' position, the files, the last write, the child
\* process of execute_command, the host's tool registry, and a second
\* invocation of write_file that runs while the first call is awaited
otherTools == <<ws, mw, an, fsop, disk, written, proc, registry, peer>>

vars == <<call, wr, br, hostException, leakedBrowsers, otherTools>>

----------------------------------------------------------------------------
(* Bounds of the model *)

\* chunks of body delivered by 'data' events before the response ends
MaxChunks == 2

\* browsers left open by finished invocations that the model still counts
MaxLeaked == 1

\* entries of RelatedTopics in the longest instant-answer response
MaxTopics == 21

\* script elements of a page, and chunks of the body of a script file
MaxScripts == 2

MaxPieces == 2

\* probes of one invocation that are answered other than by 200, a JSON
\* content type and one chunk of JSON
MaxDeviations == 1

\* code units of the longest text handed to base64_encode
MaxTextLen == 3

\* chunks of output a child process writes
MaxOutput == 2

----------------------------------------------------------------------------
(* Values the inputs are drawn from *)

ValidUrl == "http://a.test/p"

\* a page with many script tags, and the src attributes of its tags
LargePageUrl == "http://a.test/many"

Libs ==
  <<"/l1.js", "/l2.js", "/l3.js", "/l4.js", "/l5.js", "/l6.js", "/l7.js", "/l8.js",
    "/l9.js", "/l10.js", "/l11.js">>

\* new URL(s) succeeds exactly for these
Queries == {"cve"}

\* the template literal of webSearchHandler; encodeURIComponent leaves the
\* letters of these queries as they are
SearchUrl(query) ==
  "https://api.duckduckgo.com/?q=" \o query \o "&format=json&no_html=1&skip_disambig=1"

SearchUrls == {SearchUrl(q) : q \in Queries}

ParsableUrls == {ValidUrl} \cup SearchUrls

UrlValues == {ValidUrl, "not a url"}

Methods == {"GET", "POST", "PUT"}

\* request bodies: "" and "a" followed by U+00E9 (two bytes in UTF-8)
DataValues == {<< >>, <<97, 233>>}

\* response events of the network
StatusCodes == {200, 301, 302, 303, 307, 308, 404}

\* a Location header: a relative reference, or one new URL() rejects
LocationValues == {"/next", "http://"}

\* one body chunk is one HTML element of the page
Tokens == {"a", "button", "form", "script"}

Repeat(n, e) == [i \in 1..n |-> e]

\* an entry of RelatedTopics with Text and FirstURL, and a category group,
\* which has neither
ValidTopic == [Text |-> "t - x", FirstURL |-> "http://t"]

GroupTopic == [Text |-> "", FirstURL |-> ""]

TopicLists ==
  {Repeat(n, ValidTopic) : n \in {0, 2, 3, MaxTopics}} \cup {<<GroupTopic, ValidTopic>>}

\* the texts the instant-answer server may send, a chunk carrying a whole
\* text: one that is no JSON, the JSON null, and JSON objects
SearchDocs ==
  {[kind |-> k, Abstract |-> "", RelatedTopics |-> << >>] : k \in {"text", "null"}}
    \cup {[kind |-> "object", Abstract |-> a, RelatedTopics |-> t] :
            a \in {"", "A"}, t \in TopicLists}

\* what a 'data' event may carry, by the server the request went to
BodyChunks(a) == IF a.url \in SearchUrls THEN SearchDocs ELSE Tokens

\* error.message of the 'error' event, by the phase the request is in
NetErrors(phase) ==
  CASE phase = "sent" -> {"connect ECONNREFUSED", "getaddrinfo ENOTFOUND"}
    [] phase = "receiving" -> {"read ECONNRESET"}
    [] OTHER -> {"socket hang up"}

----------------------------------------------------------------------------
(* Helpers standing for the JS runtime *)

\* destructuring with a default: const { k = d } = a
Arg(a, k, d) == IF k \in DOMAIN a THEN a[k] ELSE d

Has(a, k) == k \in DOMAIN a

\* JSON.stringify(o): the properties whose value is undefined are dropped
JSONStringify(o, undef) == [k \in (DOMAIN o) \ undef |-> o[k]]

\* JSON.parse of a text produced by JSONStringify
JSONParse(s) == s

\* Buffer.byteLength(s) for the UTF-8 encoding of a sequence of code points
RECURSIVE ByteLength(_)
ByteLength(s) ==
  IF s = << >> THEN 0
  ELSE (IF Head(s) < 128 THEN 1
        ELSE IF Head(s) < 2048 THEN 2
        ELSE IF Head(s) < 65536 THEN 3 ELSE 4) + ByteLength(Tail(s))

\* new URL(u) throws unless u parses as an absolute URL
\* UTF-16 code units of the surrogate ranges
IsHigh(u) == u >= 55296 /\ u <= 56319

IsLow(u) == u >= 56320 /\ u <= 57343

\* the UTF-8 bytes of one code point
EncodeCodePoint(c) ==
  IF c < 128 THEN <<c>>
  ELSE IF c < 2048 THEN <<192 + (c \div 64), 128 + (c % 64)>>
  ELSE IF c < 65536
  THEN <<224 + (c \div 4096), 128 + ((c \div 64) % 64), 128 + (c % 64)>>
  ELSE <<240 + (c \div 262144), 128 + ((c \div 4096) % 64), 128 + ((c \div 64) % 64),
         128 + (c % 64)>>

\* a mutant of Utf8Encode: an unpaired surrogate is encoded like any other
\* code unit
RECURSIVE Utf8EncodeUnits(_)
Utf8EncodeUnits(s) ==
  IF s = << >> THEN << >>
  ELSE IF Len(s) >= 2 /\ IsHigh(s[1]) /\ IsLow(s[2])
  THEN EncodeCodePoint(65536 + (s[1] - 55296) * 1024 + (s[2] - 56320))
         \o Utf8EncodeUnits(Tail(Tail(s)))
  ELSE EncodeCodePoint(Head(s)) \o Utf8EncodeUnits(Tail(s))

\* Buffer.from(s, 'utf-8') and the encoding of fs.writeFile(..., 'utf-8') for
\* a string s of UTF-16 code units: a surrogate pair is one code point, an
\* unpaired surrogate is written as U+FFFD
RECURSIVE Utf8Encode(_)
Utf8Encode(s) ==
  IF s = << >> THEN << >>
  ELSE IF Len(s) >= 2 /\ IsHigh(s[1]) /\ IsLow(s[2])
  THEN EncodeCodePoint(65536 + (s[1] - 55296) * 1024 + (s[2] - 56320))
         \o Utf8Encode(Tail(Tail(s)))
  ELSE IF IsHigh(Head(s)) \/ IsLow(Head(s))
  THEN <<239, 191, 189>> \o Utf8Encode(Tail(s))
  ELSE EncodeCodePoint(Head(s)) \o Utf8Encode(Tail(s))

\* continuation bytes a lead byte asks for; -1 for a byte that leads nothing
Needed(b) ==
  IF b < 128 THEN 0
  ELSE IF b >= 194 /\ b <= 223 THEN 1
  ELSE IF b >= 224 /\ b <= 239 THEN 2
  ELSE IF b >= 240 /\ b <= 244 THEN 3
  ELSE -1

\* the range of the byte that may follow lead byte b at position k
ContinuationOk(b, k, c) ==
  LET lower == IF k = 1 /\ b = 224 THEN 160 ELSE IF k = 1 /\ b = 240 THEN 144 ELSE 128
      upper == IF k = 1 /\ b = 237 THEN 159 ELSE IF k = 1 /\ b = 244 THEN 143 ELSE 191
  IN c >= lower /\ c <= upper

\* how many of the bytes after the lead byte continue its sequence
RECURSIVE Continued(_, _, _)
Continued(bytes, k, need) ==
  IF k > need \/ k + 1 > Len(bytes) \/ ~ContinuationOk(bytes[1], k, bytes[k + 1])
  THEN k - 1
  ELSE Continued(bytes, k + 1, need)

\* the UTF-16 code units of one code point
Units(c) ==
  IF c < 65536 THEN <<c>>
  ELSE <<55296 + ((c - 65536) \div 1024), 56320 + ((c - 65536) % 1024)>>

\* the code point of a complete sequence of 1 + need bytes
CodePoint(bytes, need) ==
  CASE need = 0 -> bytes[1]
    [] need = 1 -> (bytes[1] - 192) * 64 + (bytes[2] - 128)
    [] need = 2 -> (bytes[1] - 224) * 4096 + (bytes[2] - 128) * 64 + (bytes[3] - 128)
    [] OTHER -> (bytes[1] - 240) * 262144 + (bytes[2] - 128) * 4096
                  + (bytes[3] - 128) * 64 + (bytes[4] - 128)

\* buffer.toString('utf-8') and the decoding of fs.readFile(..., 'utf-8'):
\* bytes that form no complete sequence are read as one U+FFFD
RECURSIVE Utf8Decode(_)
Utf8Decode(bytes) ==
  IF bytes = << >> THEN << >>
  ELSE LET need == Needed(bytes[1])
           got == IF need < 0 THEN 0 ELSE Continued(bytes, 1, need)
           rest == SubSeq(bytes, got + 2, Len(bytes))
       IN IF need >= 0 /\ got = need
          THEN Units(CodePoint(bytes, need)) \o Utf8Decode(rest)
          ELSE <<65533>> \o Utf8Decode(rest)

URLParses(a) == Has(a, "url") /\ a.url \in ParsableUrls

URLOrigin(u) ==
  IF u \in {ValidUrl, LargePageUrl} THEN "http://a.test" ELSE "https://api.duckduckgo.com"

\* new URL(loc, base) throws for "http://" (a special scheme with an empty host)
URLResolves(loc) == loc # "http://"

\* new URL(loc, base).href
URLResolve(loc, base) == URLOrigin(base) \o loc

EmptyObject == << >>

\* the objects { k: v } for v in S, and the object without k
Opt(k, S) == {EmptyObject} \cup {[x \in {k} |-> v] : v \in S}

----------------------------------------------------------------------------
(* web_request: src/official-plugins/web-plugin/index.js *)

DefaultHeaders ==
  [x \in {"User-Agent", "Accept", "Accept-Language", "Accept-Encoding",
          "Connection", "Upgrade-Insecure-Requests"} |->
     CASE x = "User-Agent" -> "Mozilla/5.0 (X11; Linux x86_64)"
       [] x = "Accept" -> "text/html,application/xhtml+xml"
       [] x = "Accept-Language" -> "en-US,en;q=0.5"
       [] x = "Accept-Encoding" -> "gzip, deflate"
       [] x = "Connection" -> "keep-alive"
       [] OTHER -> "1"]

DefaultContentType == "application/x-www-form-urlencoded"

RedirectCodes == {301, 302, 303, 307, 308}

\* header objects a caller may pass: "" is a value that is falsy in JS
CallerHeaderObjects ==
  {ua @@ ct @@ cl : ua \in Opt("User-Agent", {"caller-ua"}),
                    ct \in Opt("Content-Type", {"", "text/plain"}),
                    cl \in Opt("Content-Length", {"999"})}

WebRequestArgs ==
  {u @@ m @@ h @@ d @@ f :
     u \in Opt("url", UrlValues),
     m \in Opt("method", Methods \ {"GET"}),
     h \in {[headers |-> o] : o \in CallerHeaderObjects},
     d \in Opt("data", DataValues),
     f \in Opt("follow_redirects", {FALSE})}

\* a mutant of MergeHeaders: the defaults win over the caller's headers
MergeHeadersDefaultsWin(defaults, headers) ==
  [k \in DOMAIN defaults \cup DOMAIN headers |->
     IF k \in DOMAIN defaults THEN defaults[k] ELSE headers[k]]

\* { ...defaults, ...headers }: the spread written last wins
MergeHeaders(defaults, headers) ==
  [k \in DOMAIN defaults \cup DOMAIN headers |->
     IF k \in DOMAIN headers THEN headers[k] ELSE defaults[k]]

\* obj[k] = v
SetProp(obj, k, v) ==
  [x \in DOMAIN obj \cup {k} |-> IF x = k THEN v ELSE obj[x]]

\* if (data): null, undefined and "" are falsy
DataTruthy(a) == Has(a, "data") /\ a.data # << >>

\* data && (method === 'POST' || method === 'PUT')
SendsBody(a) == DataTruthy(a) /\ Arg(a, "method", "GET") \in {"POST", "PUT"}

\* the headers of the options object handed to httpModule.request
RequestHeaders(a) ==
  LET merged == MergeHeaders(DefaultHeaders, Arg(a, "headers", EmptyObject))
      \* the number Buffer.byteLength(data), as the header text it is sent as
      withLength == SetProp(merged, "Content-Length", ToString(ByteLength(a.data)))
  IN IF SendsBody(a)
     THEN IF ~Has(withLength, "Content-Type") \/ withLength["Content-Type"] = ""
          THEN SetProp(withLength, "Content-Type", DefaultContentType)
          ELSE withLength
     ELSE merged

UrlUndefined(a) == IF Has(a, "url") THEN {} ELSE {"url"}

\* the object of the error and catch branches
RequestErrorResult(a, msg) ==
  JSONStringify([success |-> FALSE, error |-> msg, url |-> Arg(a, "url", ""),
                 method |-> Arg(a, "method", "GET")], UrlUndefined(a))

TimeoutMessage == "Request timeout (30s)"

\* a mutant of RedirectApplies: 303 is missing from the list of codes
RedirectAppliesWithout303(a, status, headers) ==
  /\ Arg(a, "follow_redirects", TRUE)
  /\ status \in RedirectCodes \ {303}
  /\ Has(headers, "location")

\* the condition under which the 'end' listener reports a redirect
RedirectApplies(a, status, headers) ==
  /\ Arg(a, "follow_redirects", TRUE)
  /\ status \in RedirectCodes
  /\ Has(headers, "location")

\* the object built by the 'end' listener
ResponseResult(a, status, headers, body) ==
  LET result == [success |-> TRUE, status_code |-> status, status_message |-> "",
                 headers |-> headers, body |-> body, url |-> a.url,
                 method |-> Arg(a, "method", "GET"), redirected |-> FALSE]
  IN JSONStringify(
       IF RedirectApplies(a, status, headers)
       THEN SetProp(SetProp(result, "redirected", TRUE), "redirect_url",
                    URLResolve(headers.location, a.url))
       ELSE result, {})

NoRequest ==
  [phase |-> "none", settled |-> FALSE, result |-> EmptyObject, args |-> EmptyObject,
   headers |-> EmptyObject, requests |-> 0, destroyed |-> FALSE, timedOut |-> FALSE,
   status |-> 0, resHeaders |-> EmptyObject, chunks |-> << >>]

\* a mutant of Resolve: a later resolve replaces the value of the promise
ResolveLastWins(w, value) == [w EXCEPT !.settled = TRUE, !.result = value]

\* resolve(value) of new Promise((resolve) => ...): only the first call settles
Resolve(w, value) ==
  IF w.settled THEN w ELSE [w EXCEPT !.settled = TRUE, !.result = value]

\* the synchronous part of webRequestHandler: new URL(url) may throw into the
\* catch; otherwise one request is created, written and ended
webRequestHandler(a) ==
  IF ~URLParses(a)
  THEN Resolve([NoRequest EXCEPT !.args = a], RequestErrorResult(a, "Invalid URL"))
  ELSE [NoRequest EXCEPT !.args = a, !.phase = "sent",
                         !.headers = RequestHeaders(a), !.requests = 1]

\* the request leaves the phase in which the response is read: res and chunks,
\* locals of the response callback, are dead
Closed(w, phase) ==
  [w EXCEPT !.phase = phase, !.status = 0, !.resHeaders = EmptyObject, !.chunks = << >>]

\* req.on('error'): a connection error before the response, a reset while the
\* body arrives, or the "socket hang up" that follows req.destroy()
reqOnError ==
  /\ wr.phase \in {"sent", "receiving", "destroyed"}
  /\ \E msg \in NetErrors(wr.phase) :
       wr' = Resolve(Closed(wr, "closed"), RequestErrorResult(wr.args, msg))
  /\ UNCHANGED <<call, br, hostException, leakedBrowsers, otherTools>>

\* the response callback of httpModule.request: status line and headers arrived
reqOnResponse ==
  /\ wr.phase = "sent"
  /\ \E status \in StatusCodes, h \in Opt("location", LocationValues) :
       wr' = [wr EXCEPT !.phase = "receiving", !.status = status, !.resHeaders = h]
  /\ UNCHANGED <<call, br, hostException, leakedBrowsers, otherTools>>

\* res.on('data'): chunks.push(chunk)
resOnData ==
  /\ wr.phase = "receiving"
  /\ Len(wr.chunks) < MaxChunks
  /\ \E chunk \in BodyChunks(wr.args) : wr' = [wr EXCEPT !.chunks = Append(@, chunk)]
  /\ UNCHANGED <<call, br, hostException, leakedBrowsers, otherTools>>

\* res.on('end'): builds the result and resolves; new URL(location, url) is not
\* inside any try, so its exception leaves the listener uncaught
resOnEnd ==
  /\ wr.phase = "receiving"
  /\ IF RedirectApplies(wr.args, wr.status, wr.resHeaders)
        /\ ~URLResolves(wr.resHeaders.location)
     THEN /\ wr' = Closed(wr, "closed")
          /\ hostException' = TRUE
     ELSE /\ wr' = Resolve(Closed(wr, "closed"),
                           ResponseResult(wr.args, wr.status, wr.resHeaders, wr.chunks))
          /\ UNCHANGED hostException
  /\ UNCHANGED <<call, br, leakedBrowsers, otherTools>>

\* req.on('timeout'): the socket was idle for 30 s, before or during the body
reqOnTimeout ==
  /\ wr.phase \in {"sent", "receiving"}
  /\ wr' = Resolve([Closed(wr, "destroyed") EXCEPT !.destroyed = TRUE,
                                                   !.timedOut = TRUE],
                   RequestErrorResult(wr.args, TimeoutMessage))
  /\ UNCHANGED <<call, br, hostException, leakedBrowsers, otherTools>>

\* the socket closes with no event the handler listens to: the peer ends the
\* connection in the middle of the body (res emits 'aborted' and 'close', never
\* 'end'), or the destroyed socket closes
socketClose ==
  /\ wr.phase \in {"receiving", "destroyed"}
  /\ wr' = Closed(wr, "closed")
  /\ UNCHANGED <<call, br, hostException, leakedBrowsers, otherTools>>

----------------------------------------------------------------------------
(* browse_website: src/official-plugins/web-plugin/index.js *)

BrowseArgs ==
  {u @@ l @@ f @@ sc @@ ua :
     u \in Opt("url", UrlValues),
     l \in Opt("extract_links", {TRUE}),
     f \in Opt("extract_forms", {TRUE}),
     sc \in Opt("extract_scripts", {TRUE}),
     ua \in Opt("user_agent", {"caller-ua"})}

\* the pages: sequences of at most MaxChunks elements
Pages == UNION {[1..n -> Tokens] : n \in 0..MaxChunks}

\* the page.evaluate / page.title calls whose rejection a .catch absorbs;
\* at most one of them fails in one invocation
Extractions == {"title", "text_content", "links", "forms", "scripts", "meta_tags"}

ExtractFailures == {{}} \cup {{x} : x \in Extractions}

SecurityHeaders ==
  {"strict-transport-security", "content-security-policy", "x-frame-options",
   "x-content-type-options", "x-xss-protection", "referrer-policy"}

\* for (const header of securityHeaders) if (headers[header]) ...
SecurityHeadersOf(headers) ==
  [k \in {x \in DOMAIN headers \cap SecurityHeaders : headers[x] # ""} |-> headers[k]]

Count(page, tok) == Len(SelectSeq(page, LAMBDA t : t = tok))

\* elements built inside page.evaluate from the DOM
DomLink ==
  [type |-> "link", url |-> "http://a.test/x", text |-> "x", relative |-> "/x",
   visible |-> TRUE]

DomButton ==
  [type |-> "button", onclick |-> "", data_url |-> "", text |-> "b", class |-> "",
   visible |-> TRUE, id |-> ""]

DomInput ==
  [name |-> "q", type |-> "text", value |-> "", id |-> "", placeholder |-> "",
   required |-> FALSE, visible |-> TRUE]

DomForm ==
  [action |-> "http://a.test/s", method |-> "GET", inputs |-> <<DomInput>>, id |-> "",
   class |-> "", visible |-> TRUE]

DomScript == [type |-> "external", url |-> "http://a.test/a.js", relative |-> "/a.js"]

\* all a[href] first, then all buttons
DomLinks(page) == Repeat(Count(page, "a"), DomLink) \o Repeat(Count(page, "button"), DomButton)

\* elements built by the regular expressions of the static mode
extractLinksFromHTML(page, url) ==
  Repeat(Count(page, "a"),
         [type |-> "link", url |-> URLResolve("/x", url), text |-> "x", relative |-> "/x"])

extractFormsFromHTML(page, url) ==
  Repeat(Count(page, "form"),
         [action |-> "/s", method |-> "GET",
          inputs |-> <<[name |-> "q", type |-> "text", value |-> ""]>>])

extractScriptsFromHTML(page, url) ==
  Repeat(Count(page, "script"),
         [type |-> "external", url |-> URLResolve("/a.js", url), relative |-> "/a.js"])

\* the result object of browseWithPuppeteer
PuppeteerResult(a, status, headers, page, failed) ==
  JSONStringify(
    [success |-> TRUE, url |-> a.url, status_code |-> status, headers |-> headers,
     content_length |-> Len(page),
     title |-> IF "title" \in failed THEN "" ELSE "T",
     text_content |-> IF "text_content" \in failed THEN "" ELSE "text",
     links |-> IF Arg(a, "extract_links", FALSE) /\ "links" \notin failed
               THEN DomLinks(page) ELSE << >>,
     forms |-> IF Arg(a, "extract_forms", FALSE) /\ "forms" \notin failed
               THEN Repeat(Count(page, "form"), DomForm) ELSE << >>,
     scripts |-> IF Arg(a, "extract_scripts", FALSE) /\ "scripts" \notin failed
                 THEN Repeat(Count(page, "script"), DomScript) ELSE << >>,
     meta_tags |-> << >>,
     security_headers |-> SecurityHeadersOf(headers),
     rendered_with |-> "puppeteer"], {})

\* the arguments browseStatic passes to webRequestHandler
StaticRequestArgs(a) ==
  (IF Has(a, "url") THEN [url |-> a.url] ELSE EmptyObject)
  @@ [method |-> "GET",
      headers |-> IF Has(a, "user_agent") THEN [x \in {"User-Agent"} |-> a.user_agent]
                  ELSE EmptyObject]

\* a mutant of StaticFailure: a fixed message instead of the request's error
StaticFailureFixedMessage(a, responseData) ==
  JSONStringify([success |-> FALSE, error |-> "Failed to fetch page",
                 url |-> Arg(a, "url", "")], UrlUndefined(a))

\* browseStatic when the request failed
StaticFailure(a, responseData) ==
  JSONStringify([success |-> FALSE, error |-> responseData.error,
                 url |-> Arg(a, "url", "")], UrlUndefined(a))

\* browseStatic when the request returned a response
StaticSuccess(a, responseData) ==
  LET htmlContent == responseData.body
  IN JSONStringify(
       [success |-> TRUE, url |-> a.url, status_code |-> responseData.status_code,
        headers |-> responseData.headers,
        content_length |-> Len(htmlContent),
        title |-> "T",
        text_content |-> "text",
        links |-> IF Arg(a, "extract_links", FALSE)
                  THEN extractLinksFromHTML(htmlContent, a.url) ELSE << >>,
        forms |-> IF Arg(a, "extract_forms", FALSE)
                  THEN extractFormsFromHTML(htmlContent, a.url) ELSE << >>,
        scripts |-> IF Arg(a, "extract_scripts", FALSE)
                    THEN extractScriptsFromHTML(htmlContent, a.url) ELSE << >>,
        meta_tags |-> << >>,
        security_headers |-> SecurityHeadersOf(responseData.headers),
        rendered_with |-> "static"], {})

\* what browseStatic returns once webRequestHandler has resolved with response
browseStaticResult(a, response) ==
  LET responseData == JSONParse(response)
  IN IF ~responseData.success
     THEN StaticFailure(a, responseData)
     ELSE StaticSuccess(a, responseData)

NoBrowse ==
  [pc |-> "none", browser |-> "null", modes |-> << >>, raised |-> "none",
   status |-> 0, page |-> << >>]

\* a mutant of FallBack: the handler has no catch, the exception is its result
FallBackMissing(b, a) == [b EXCEPT !.pc = "rejected", !.status = 0, !.page = << >>]

\* the catch of browseWebsiteHandler: browseStatic is called and awaits the
\* request it makes
FallBack(b, a) ==
  [b EXCEPT !.pc = "static", !.modes = Append(@, "static"), !.status = 0,
            !.page = << >>]

\* an exception inside the try of browseWithPuppeteer: with no browser the catch
\* rethrows at once, otherwise it first awaits browser.close()
PrimaryThrows(b, a) ==
  LET r == [b EXCEPT !.raised = b.pc]
  IN IF b.browser = "null" THEN FallBack(r, a) ELSE [r EXCEPT !.pc = "catch"]

\* the request of browseStatic starts in the step that enters the fallback
RequestOf(b, a, w) == IF b.pc = "static" THEN webRequestHandler(StaticRequestArgs(a)) ELSE w

\* the host calls browse_website: the handler enters browseWithPuppeteer
CallBrowseWebsite ==
  /\ call.state = "idle"
  /\ \E a \in BrowseArgs :
       call' = [tool |-> "browse_website", args |-> a, state |-> "running",
                value |-> EmptyObject]
  /\ br' = [NoBrowse EXCEPT !.pc = "launch", !.modes = <<"puppeteer">>]
  /\ UNCHANGED <<wr, hostException, leakedBrowsers, otherTools>>

\* await puppeteer.launch(...)
puppeteerLaunch ==
  /\ br.pc = "launch"
  /\ \E ok \in BOOLEAN :
       LET b == IF ok THEN [br EXCEPT !.pc = "newPage", !.browser = "open"]
                ELSE PrimaryThrows(br, call.args)
       IN /\ br' = b
          /\ wr' = RequestOf(b, call.args, wr)
  /\ UNCHANGED <<call, hostException, leakedBrowsers, otherTools>>

\* await browser.newPage(), page.setUserAgent, page.setViewport
pageSetup ==
  /\ br.pc = "newPage"
  /\ \E ok \in BOOLEAN :
       br' = IF ok THEN [br EXCEPT !.pc = "goto"] ELSE PrimaryThrows(br, call.args)
  /\ UNCHANGED <<call, wr, hostException, leakedBrowsers, otherTools>>

\* await page.goto(url, ...): an invalid URL, a navigation error or the 60 s
\* timeout throw
pageGoto ==
  /\ br.pc = "goto"
  /\ \/ /\ URLParses(call.args)
        /\ \E status \in StatusCodes :
             br' = [br EXCEPT !.pc = "content", !.status = status]
     \/ br' = PrimaryThrows(br, call.args)
  /\ UNCHANGED <<call, wr, hostException, leakedBrowsers, otherTools>>

\* await page.content()
pageContent ==
  /\ br.pc = "content"
  /\ \/ \E page \in Pages : br' = [br EXCEPT !.pc = "close", !.page = page]
     \/ br' = PrimaryThrows(br, call.args)
  /\ UNCHANGED <<call, wr, hostException, leakedBrowsers, otherTools>>

\* the result object with its extractions, then await browser.close() of the
\* try block and return JSON.stringify(result)
browserClose ==
  /\ br.pc = "close"
  /\ \/ \E failed \in ExtractFailures :
          /\ br' = [br EXCEPT !.pc = "done", !.browser = "closed", !.status = 0,
                               !.page = << >>]
          /\ call' = [call EXCEPT !.state = "returned",
                        !.value = PuppeteerResult(call.args, br.status, EmptyObject,
                                                  br.page, failed)]
     \/ \E left \in {"open", "closed"} :
          /\ br' = [br EXCEPT !.pc = "catch", !.browser = left, !.raised = "close"]
          /\ UNCHANGED call
  /\ UNCHANGED <<wr, hostException, leakedBrowsers, otherTools>>

\* catch (error) { if (browser) await browser.close(); throw error; }
\* a close that rejects replaces the exception and may leave the browser open
catchClose ==
  /\ br.pc = "catch"
  /\ \E left \in {br.browser, "closed"} :
       LET b == FallBack([br EXCEPT !.browser = left], call.args)
       IN /\ br' = b
          /\ wr' = RequestOf(b, call.args, wr)
  /\ UNCHANGED <<call, hostException, leakedBrowsers, otherTools>>

\* browseStatic after await webRequestHandler(...), and the handler's return
browseStaticReturn ==
  /\ br.pc = "static"
  /\ wr.settled
  /\ br' = [br EXCEPT !.pc = "done"]
  /\ call' = [call EXCEPT !.state = "returned",
                          !.value = browseStaticResult(call.args, wr.result)]
  /\ UNCHANGED <<wr, hostException, leakedBrowsers, otherTools>>

----------------------------------------------------------------------------
(* web_search: src/official-plugins/web-plugin/index.js *)

\* the value of num_results when the caller passes none
DefaultNumResults == 10

\* "max: 20" of the descriptor of num_results
MaxNumResults == 20

Min(a, b) == IF a < b THEN a ELSE b

Max(a, b) == IF a < b THEN b ELSE a

\* s.slice(0, end): a negative end counts from the end of s
Slice(s, end) ==
  SubSeq(s, 1, IF end < 0 THEN Max(Len(s) + end, 0) ELSE Min(end, Len(s)))

WebSearchArgs ==
  {q @@ n : q \in {[query |-> x] : x \in Queries},
            n \in Opt("num_results", {0, 1, 3, MaxTopics})}

\* JSON.parse(responseData.body) returns: the body is exactly one JSON text
SearchParses(body) == Len(body) = 1 /\ body[1].kind # "text"

\* error.message of the exception that JSON.parse, or the reading of
\* searchData.Abstract on null, raises
SearchException(body) ==
  IF body = << >> THEN "Unexpected end of JSON input"
  ELSE IF ~SearchParses(body) THEN "Unexpected token in JSON"
  ELSE "Cannot read properties of null (reading 'Abstract')"

InstantAnswer(doc) ==
  [title |-> "Instant Answer", snippet |-> doc.Abstract, url |-> "http://abstract",
   type |-> "instant_answer"]

RelatedTopic(topic) ==
  [title |-> "t", snippet |-> topic.Text, url |-> topic.FirstURL,
   type |-> "related_topic"]

WebResult ==
  [title |-> "link", snippet |-> "Search result", url |-> "http://link",
   type |-> "web_result"]

\* results after the instant answer and the related topics were gathered
Gather(doc, n) ==
  LET abstract == IF doc.Abstract # "" THEN <<InstantAnswer(doc)>> ELSE << >>
      taken == Slice(doc.RelatedTopics, n - Len(abstract))
      usable == SelectSeq(taken, LAMBDA t : t.Text # "" /\ t.FirstURL # "")
  IN abstract \o [i \in 1..Len(usable) |-> RelatedTopic(usable[i])]

\* what execAsync(curl | grep -o | head -n) ends with: a rejection, or a
\* stdout of at most n lines, one link each
ScrapeOutcomes(n) ==
  {[failed |-> TRUE, links |-> 0]}
    \cup {[failed |-> FALSE, links |-> k] : k \in {k \in {0, 1, 3, n} : k <= n}}

\* a mutant of Scraped: a failed scrape discards what was gathered
ScrapedOrNothing(results, outcome) ==
  IF outcome.failed THEN << >> ELSE results \o Repeat(outcome.links, WebResult)

\* results after the inner try: its catch is empty
Scraped(results, outcome) ==
  IF outcome.failed THEN results ELSE results \o Repeat(outcome.links, WebResult)

SearchSuccess(a, results) ==
  [success |-> TRUE, query |-> a.query,
   results |-> Slice(results, Arg(a, "num_results", DefaultNumResults)),
   total_results |-> Len(results)]

SearchFailure(a, msg) == [success |-> FALSE, error |-> msg, query |-> a.query]

NoSearch == [pc |-> "none", results |-> << >>, scrapes |-> 0, scrapeFailed |-> FALSE]

\* the host calls web_search: the handler runs up to await webRequestHandler
CallWebSearch ==
  /\ call.state = "idle"
  /\ \E a \in WebSearchArgs :
       /\ call' = [tool |-> "web_search", args |-> a, state |-> "running",
                   value |-> EmptyObject]
       /\ wr' = webRequestHandler([url |-> SearchUrl(a.query)])
  /\ ws' = [NoSearch EXCEPT !.pc = "primary"]
  /\ UNCHANGED <<br, hostException, leakedBrowsers, mw, an, fsop, disk, written,
                 proc, registry, peer>>

\* after await webRequestHandler: the response is parsed and the results are
\* gathered; with fewer than three the handler goes on to await execAsync
webSearchPrimary ==
  /\ ws.pc = "primary"
  /\ wr.settled
  /\ LET a == call.args
         r == wr.result
         results == Gather(r.body[1], Arg(a, "num_results", DefaultNumResults))
         return(value) ==
           /\ call' = [call EXCEPT !.state = "returned", !.value = value]
           /\ ws' = [ws EXCEPT !.pc = "done"]
     IN IF ~r.success THEN return(SearchFailure(a, "Failed to perform web search"))
        ELSE IF ~SearchParses(r.body) \/ r.body[1].kind = "null"
        THEN return(SearchFailure(a, SearchException(r.body)))
        ELSE IF Len(results) < 3
        THEN /\ ws' = [ws EXCEPT !.pc = "scrape", !.results = results]
             /\ UNCHANGED call
        ELSE /\ call' = [call EXCEPT !.state = "returned",
                                     !.value = SearchSuccess(a, results)]
             /\ ws' = [ws EXCEPT !.pc = "done", !.results = results]
  /\ UNCHANGED <<wr, br, hostException, leakedBrowsers, mw, an, fsop, disk, written,
                 proc, registry, peer>>

\* after await execAsync(curlCommand), and the handler's return
webSearchScrape ==
  /\ ws.pc = "scrape"
  /\ \E outcome \in ScrapeOutcomes(Arg(call.args, "num_results", DefaultNumResults)) :
       /\ ws' = [ws EXCEPT !.pc = "done", !.scrapes = @ + 1,
                           !.scrapeFailed = outcome.failed]
       /\ call' = [call EXCEPT !.state = "returned",
                     !.value = SearchSuccess(call.args, Scraped(ws.results, outcome))]
  /\ UNCHANGED <<wr, br, hostException, leakedBrowsers, mw, an, fsop, disk, written,
                 proc, registry, peer>>

----------------------------------------------------------------------------
(* makeWebRequest: src/official-plugins/filesystem-plugin/index.js *)

\* new URL(url) throws for these
InvalidUrls == {"not a url", "http://", "http://a.test:x"}

JsonType == "content-type" :> "application/json"

\* status line and headers of a response
MwResponses ==
  {[status |-> s, headers |-> h] : s \in {200, 404}, h \in {JsonType, EmptyObject}}

\* src attributes of the script tags of a page
ScriptSrcs == {"/a.js", "http://"}

\* pieces of JavaScript text, in an inline script or in a file
CodePieces == {"fetch('/api/a')", "x='/api/a';y='/api/b'", "var z=1"}

\* one body chunk of a page is one script element: inline, or with a src
PageChunks ==
  {[src |-> "", code |-> c] : c \in CodePieces}
    \cup {[src |-> s, code |-> ""] : s \in ScriptSrcs}

\* the whole body of the answer to a probe
ProbeBodies == {"{\"ok\":1}", "<html>"}

\* what a 'data' event may carry, and how many of them the model delivers, by
\* what is served under the URL
\* one body chunk of the large page is a run of script tags: the first 9 or
\* all 11 of Libs
ScriptRuns ==
  {[src |-> "", code |-> "", srcs |-> SubSeq(Libs, 1, n)] : n \in {9, Len(Libs)}}

LibUrls == {URLResolve(Libs[i], LargePageUrl) : i \in DOMAIN Libs}

\* the text every file of Libs is served with
LibBody == "x='/api/a';y='/api/b'"

MwChunks(url) ==
  IF url = ValidUrl THEN PageChunks
  ELSE IF url = LargePageUrl THEN ScriptRuns
  ELSE IF url \in LibUrls THEN {LibBody}
  ELSE IF url \in {URLResolve(s, ValidUrl) : s \in ScriptSrcs} THEN CodePieces
  ELSE ProbeBodies

MwMaxChunks(url) ==
  IF url \in {ValidUrl, LargePageUrl} THEN MaxScripts
  ELSE IF url \in {URLResolve(s, ValidUrl) : s \in ScriptSrcs} THEN MaxPieces
  ELSE 1

NoMwRequest ==
  [phase |-> "none", settled |-> FALSE, result |-> EmptyObject, url |-> "",
   status |-> 0, resHeaders |-> EmptyObject, chunks |-> << >>, deviant |-> FALSE]

\* resolve(JSON.stringify({ success: false, error }))
MwFailure(msg) == [success |-> FALSE, error |-> msg]

\* the object the 'end' listener resolves with
MwSuccess(status, headers, body) ==
  [success |-> TRUE, status_code |-> status, headers |-> headers, body |-> body]

\* the promise executor: new URL(url) may throw into the catch; otherwise one
\* request is created and ended
makeWebRequest(url) ==
  IF url \in InvalidUrls
  THEN Resolve(NoMwRequest, MwFailure("Invalid URL"))
  ELSE [NoMwRequest EXCEPT !.phase = "sent", !.url = url]

\* res and responseData, locals of the response callback, are dead
MwClosed(m, phase) ==
  [m EXCEPT !.phase = phase, !.status = 0, !.resHeaders = EmptyObject,
            !.chunks = << >>]

\* the answer every probe gets unless the server or the network deviates
StandardProbe(m) ==
  /\ m.phase = "receiving"
  /\ m.status = 200
  /\ m.resHeaders = JsonType
  /\ m.chunks = <<IF m.url \in LibUrls THEN LibBody ELSE "{\"ok\":1}">>

\* the requests of which the model lets only MaxDeviations deviate: the
\* probes, and the requests for the files of the large page
Budgeted(m) == call.tool = "probe_api_endpoints" \/ m.url \in LibUrls

\* an event that makes the answer to a probe differ from the standard one:
\* the probes of one invocation that deviate are counted up to MaxDeviations
Deviates(m) ==
  IF Budgeted(m) /\ ~m.deviant
  THEN /\ an.deviations < MaxDeviations
       /\ an' = [an EXCEPT !.deviations = @ + 1]
       /\ mw' = [m EXCEPT !.deviant = TRUE]
  ELSE /\ mw' = m
       /\ UNCHANGED an

\* req.on('error')
mwOnError ==
  /\ mw.phase \in {"sent", "receiving", "destroyed"}
  /\ \E msg \in NetErrors(mw.phase) :
       Deviates(Resolve(MwClosed(mw, "closed"), MwFailure(msg)))
  /\ UNCHANGED <<call, wr, br, hostException, leakedBrowsers, ws, fsop, disk,
                 written, proc, registry, peer>>

\* the response callback of httpModule.request
mwOnResponse ==
  /\ mw.phase = "sent"
  /\ \E r \in MwResponses :
       LET m == [mw EXCEPT !.phase = "receiving", !.status = r.status,
                           !.resHeaders = r.headers]
       IN IF r.status = 200 /\ r.headers = JsonType
          THEN mw' = m /\ UNCHANGED an
          ELSE Deviates(m)
  /\ UNCHANGED <<call, wr, br, hostException, leakedBrowsers, ws, fsop, disk,
                 written, proc, registry, peer>>

\* res.on('data'): responseData += chunk
mwOnData ==
  /\ mw.phase = "receiving"
  /\ Len(mw.chunks) < MwMaxChunks(mw.url)
  /\ \E chunk \in MwChunks(mw.url) :
       LET m == [mw EXCEPT !.chunks = Append(@, chunk)]
       IN IF Budgeted(m) /\ ~StandardProbe(m)
          THEN Deviates(m)
          ELSE mw' = m /\ UNCHANGED an
  /\ UNCHANGED <<call, wr, br, hostException, leakedBrowsers, ws, fsop, disk,
                 written, proc, registry, peer>>

\* res.on('end')
mwOnEnd ==
  /\ mw.phase = "receiving"
  /\ LET m == Resolve(MwClosed(mw, "closed"),
                      MwSuccess(mw.status, mw.resHeaders, mw.chunks))
     IN IF Budgeted(mw) /\ ~StandardProbe(mw)
        THEN Deviates(m)
        ELSE mw' = m /\ UNCHANGED an
  /\ UNCHANGED <<call, wr, br, hostException, leakedBrowsers, ws, fsop, disk,
                 written, proc, registry, peer>>

\* req.on('timeout'): req.destroy() and resolve
mwOnTimeout ==
  /\ mw.phase \in {"sent", "receiving"}
  /\ Deviates(Resolve(MwClosed(mw, "destroyed"), MwFailure("Request timeout")))
  /\ UNCHANGED <<call, wr, br, hostException, leakedBrowsers, ws, fsop, disk,
                 written, proc, registry, peer>>

\* the socket closes with no event makeWebRequest listens to: the peer ends
\* the connection inside the body, or the destroyed socket is released
mwSocketClose ==
  /\ mw.phase \in {"receiving", "destroyed"}
  /\ Deviates(MwClosed(mw, "closed"))
  /\ UNCHANGED <<call, wr, br, hostException, leakedBrowsers, ws, fsop, disk,
                 written, proc, registry, peer>>

----------------------------------------------------------------------------
(* analyze_javascript: src/official-plugins/filesystem-plugin/index.js *)

\* the sources of defaultPatterns
DefaultPatterns ==
  <<"/\\/api\\/[^\\s\"']+/g",
    "/https?:\\/\\/[^\\s\"']*api[^\\s\"']*/g",
    "/fetch\\s*\\(\\s*['\"](.*?)['\"][^)]*\\)/g",
    "/axios\\.(get|post|put|delete)\\s*\\(\\s*['\"](.*?)['\"][^)]*\\)/g",
    "/\\$\\.ajax\\s*\\(\\s*{[^}]*url\\s*:\\s*['\"](.*?)['\"][^}]*}/g",
    "/XMLHttpRequest[^;]*\\.open\\s*\\(\\s*[^,]*,\\s*['\"](.*?)['\"][^)]*\\)/g",
    "/graphql|gql/gi",
    "/websocket|ws:/gi">>

\* search_patterns of a caller: strings, which String.prototype.match turns
\* into regular expressions without the g flag
CustomPatterns == <<"/api/a", "/api/[ab]">>

AnalyzeArgs ==
  {u @@ p : u \in {[url |-> x] : x \in UrlValues},
            p \in Opt("search_patterns", {CustomPatterns})}

\* const patterns = search_patterns || defaultPatterns
Patterns(a) ==
  IF Has(a, "search_patterns") THEN a.search_patterns ELSE DefaultPatterns

Range(s) == {s[i] : i \in DOMAIN s}

\* every match of the pattern in one piece of code, in text order
MatchesIn(pattern, piece) ==
  CASE pattern = DefaultPatterns[1] /\ piece = "fetch('/api/a')" -> <<"/api/a">>
    [] pattern = DefaultPatterns[1] /\ piece = "x='/api/a';y='/api/b'" ->
         <<"/api/a", "/api/b">>
    [] pattern = DefaultPatterns[3] /\ piece = "fetch('/api/a')" -> <<"fetch('/api/a')">>
    [] pattern = "/api/a" /\ piece \in {"fetch('/api/a')", "x='/api/a';y='/api/b'"} ->
         <<"/api/a">>
    [] pattern = "/api/[ab]" /\ piece = "fetch('/api/a')" -> <<"/api/a">>
    [] pattern = "/api/[ab]" /\ piece = "x='/api/a';y='/api/b'" -> <<"/api/a", "/api/b">>
    [] OTHER -> << >>

RECURSIVE MatchesInAll(_, _)
MatchesInAll(pattern, content) ==
  IF content = << >> THEN << >>
  ELSE MatchesIn(pattern, Head(content)) \o MatchesInAll(pattern, Tail(content))

\* content.match(pattern) || []: all the matches under the g flag, else the
\* first one
Match(content, pattern) ==
  LET all == MatchesInAll(pattern, content)
  IN IF pattern \in Range(DefaultPatterns) THEN all ELSE SubSeq(all, 1, Min(1, Len(all)))

\* a mutant of SetAdd: the value is appended whether or not it is present
SetAddAgain(set, x) == Append(set, x)

\* Set.prototype.add, the set kept in insertion order
SetAdd(set, x) == IF x \in Range(set) THEN set ELSE Append(set, x)

RECURSIVE SetAddAll(_, _)
SetAddAll(set, xs) ==
  IF xs = << >> THEN set ELSE SetAddAll(SetAdd(set, Head(xs)), Tail(xs))

\* for (const pattern of patterns) matches.forEach(match => set.add(match))
RECURSIVE Scan(_, _, _)
Scan(set, content, patterns) ==
  IF patterns = << >> THEN set
  ELSE Scan(SetAddAll(set, Match(content, Head(patterns))), content, Tail(patterns))

\* for (const script of inlineScripts): each script element is scanned
RECURSIVE ScanInline(_, _, _)
ScanInline(set, page, patterns) ==
  IF page = << >> THEN set
  ELSE ScanInline(Scan(set, <<Head(page).code>>, patterns), Tail(page), patterns)

\* new URL(src, url).href, or the src itself when new URL throws
ScriptUrl(src, url) == IF URLResolves(src) THEN URLResolve(src, url) ELSE src

\* the src attributes of the script tags of one chunk of the page
Srcs(chunk) ==
  IF Has(chunk, "srcs") THEN chunk.srcs
  ELSE IF chunk.src # "" THEN <<chunk.src>> ELSE << >>

RECURSIVE AllSrcs(_)
AllSrcs(page) == IF page = << >> THEN << >> ELSE Srcs(Head(page)) \o AllSrcs(Tail(page))

\* jsFiles: one entry for every script tag with a src, in page order
JsFiles(page, url) ==
  LET srcs == AllSrcs(page)
  IN [i \in 1..Len(srcs) |-> ScriptUrl(srcs[i], url)]

\* the external files that are downloaded
MaxJsFiles == 10

\* a mutant of FilesToFetch: every file is downloaded
FilesToFetchAll(jsFiles) == jsFiles

\* jsFiles.slice(0, 10)
FilesToFetch(jsFiles) == SubSeq(jsFiles, 1, Min(MaxJsFiles, Len(jsFiles)))

RECURSIVE Length(_)
Length(content) ==
  IF content = << >> THEN 0 ELSE Len(Head(content)) + Length(Tail(content))

\* the entry of jsAnalysis for a downloaded file
JsFileEntry(file, content, patterns) ==
  LET fileEndpoints == Scan(<< >>, content, patterns)
  IN [file |-> file, size |-> Length(content), endpoints_found |-> fileEndpoints,
      contains_api_calls |-> Len(fileEndpoints) > 0]

\* jsAnalysis after the answer to the request for a file: an answer with
\* success false adds nothing
JsAnalysis(entries, file, jsData, patterns) ==
  IF jsData.success
  THEN Append(entries, JsFileEntry(file, jsData.body, patterns))
  ELSE entries

AnalyzeResult(a, found, entries) ==
  [success |-> TRUE, url |-> a.url, total_endpoints_found |-> Len(found),
   endpoints |-> found, js_files_analyzed |-> Len(entries), js_files |-> entries,
   patterns_used |-> Patterns(a)]

NoAnalysis ==
  [pc |-> "none", urls |-> << >>, i |-> 0, found |-> << >>, entries |-> << >>,
   fetched |-> << >>, deviations |-> 0]

\* the entry of the log of requests made: the URL and whether it was answered
Fetched(url, r) == [url |-> url, ok |-> r.success]

\* the host calls analyze_javascript: the handler runs up to the await of the
\* request for the page
AnalyzeJavaScript(args) ==
  /\ call.state = "idle"
  /\ \E a \in args :
       /\ call' = [tool |-> "analyze_javascript", args |-> a, state |-> "running",
                   value |-> EmptyObject]
       /\ mw' = makeWebRequest(a.url)
  /\ an' = [NoAnalysis EXCEPT !.pc = "page"]
  /\ UNCHANGED <<wr, br, hostException, leakedBrowsers, ws, fsop, disk, written,
                 proc, registry, peer>>

CallAnalyzeJavaScript == AnalyzeJavaScript(AnalyzeArgs)

\* the host calls analyze_javascript for the large page
CallAnalyzeLargePage == AnalyzeJavaScript({[url |-> LargePageUrl]})

\* after the page arrived: script tags, inline scripts, and the request for
\* the first external file, or the return when there is none
analyzePage ==
  /\ an.pc = "page"
  /\ mw.settled
  /\ LET a == call.args
         r == mw.result
         jsFiles == JsFiles(r.body, a.url)
         found == ScanInline(<< >>, r.body, Patterns(a))
     IN IF ~r.success
        THEN /\ call' = [call EXCEPT !.state = "returned",
                           !.value = [success |-> FALSE,
                                      error |-> "Failed to fetch main page",
                                      url |-> a.url]]
             /\ an' = [an EXCEPT !.pc = "done"]
             /\ mw' = NoMwRequest
        ELSE IF FilesToFetch(jsFiles) = << >>
        THEN /\ call' = [call EXCEPT !.state = "returned",
                                     !.value = AnalyzeResult(a, found, << >>)]
             /\ an' = [an EXCEPT !.pc = "done", !.found = found]
             /\ mw' = NoMwRequest
        ELSE /\ an' = [an EXCEPT !.pc = "file", !.urls = jsFiles, !.i = 1,
                                 !.found = found]
             /\ mw' = makeWebRequest(FilesToFetch(jsFiles)[1])
             /\ UNCHANGED call
  /\ UNCHANGED <<wr, br, hostException, leakedBrowsers, ws, fsop, disk, written,
                 proc, registry, peer>>

\* after the answer to the request for file i: its entry, then the request
\* for the next file, or the return after the last one
analyzeFile ==
  /\ an.pc = "file"
  /\ mw.settled
  /\ LET a == call.args
         r == mw.result
         file == FilesToFetch(an.urls)[an.i]
         found == IF r.success THEN Scan(an.found, r.body, Patterns(a)) ELSE an.found
         entries == JsAnalysis(an.entries, file, r, Patterns(a))
         fetched == Append(an.fetched, Fetched(file, r))
     IN IF an.i < Len(FilesToFetch(an.urls))
        THEN /\ an' = [an EXCEPT !.i = @ + 1, !.found = found, !.entries = entries,
                                 !.fetched = fetched]
             /\ mw' = makeWebRequest(FilesToFetch(an.urls)[an.i + 1])
             /\ UNCHANGED call
        ELSE /\ an' = [an EXCEPT !.pc = "done", !.found = found, !.entries = entries,
                                 !.fetched = fetched]
             /\ mw' = NoMwRequest
             /\ call' = [call EXCEPT !.state = "returned",
                                     !.value = AnalyzeResult(a, found, entries)]
  /\ UNCHANGED <<wr, br, hostException, leakedBrowsers, ws, fsop, disk, written,
                 proc, registry, peer>>

----------------------------------------------------------------------------
(* probe_api_endpoints: src/official-plugins/filesystem-plugin/index.js *)

\* the built-in list of paths
CommonPaths ==
  <<"/api", "/api/v1", "/api/v2", "/v1", "/v2", "/graphql", "/gql", "/rest",
    "/api/rest", "/api/graphql", "/api/users", "/api/auth", "/api/login",
    "/api/data", "/api/search", "/api/public", "/endpoints", "/swagger", "/docs",
    "/openapi.json", "/api-docs", "/.well-known/openapi_description">>

\* lists of paths a caller may pass: ":x" makes a URL that new URL rejects
PathLists == {<< >>, <<"/api">>, <<"/api", ":x", "/api">>}

ProbeArgs ==
  {b @@ p : b \in {[base_url |-> x] : x \in UrlValues}, p \in Opt("paths", PathLists)}

\* const commonPaths = paths || [...]: an empty array is truthy
ProbePaths(a) == IF Has(a, "paths") THEN a.paths ELSE CommonPaths

\* `${baseDomain}${path}`
TestUrl(a, path) == URLOrigin(a.base_url) \o path

\* body.includes('{"') || body.includes('[{')
LooksLikeJson(body) == \E i \in DOMAIN body : body[i] = "{\"ok\":1}"

\* contentType.includes('json') || contentType.includes('xml')
JsonOrXml(type) == type \in {"application/json", "text/xml"}

\* the entry pushed for an answer r.  a || b || c || d is the first operand
\* that is true, else the last one: likely_api is undefined, and dropped by
\* JSON.stringify, when there is no body, or no '{"' in it and no content-type
ProbeEntry(url, r) ==
  LET answered == r.success
      typed == answered /\ Has(r.headers, "content-type")
      likely == answered /\ (LooksLikeJson(r.body)
                               \/ (typed /\ JsonOrXml(r.headers["content-type"])))
      undef == IF answered /\ (LooksLikeJson(r.body) \/ typed) THEN {}
               ELSE {"likely_api"}
  IN JSONStringify(
       [url |-> url,
        status_code |-> IF answered THEN r.status_code ELSE "error",
        accessible |-> answered /\ r.status_code < 400,
        content_type |-> IF typed THEN r.headers["content-type"] ELSE "unknown",
        response_size |-> IF answered THEN Length(r.body) ELSE 0,
        likely_api |-> likely], undef)

\* a mutant of Probed: a probe that fails leaves no entry
ProbedIfAnswered(results, url, r) ==
  IF r.success THEN Append(results, ProbeEntry(url, r)) ELSE results

\* results after the answer to one probe
Probed(results, url, r) == Append(results, ProbeEntry(url, r))

Urls(results) == [i \in 1..Len(results) |-> results[i].url]

ProbeResult(a, results) ==
  LET accessibleEndpoints == SelectSeq(results, LAMBDA r : r.accessible)
      likelyApiEndpoints ==
        SelectSeq(results, LAMBDA r : Has(r, "likely_api") /\ r.likely_api)
  IN [success |-> TRUE, base_url |-> a.base_url, total_paths_tested |-> Len(results),
      accessible_endpoints |-> Len(accessibleEndpoints),
      likely_api_endpoints |-> Len(likelyApiEndpoints),
      results |-> results,
      summary |-> [accessible |-> Urls(accessibleEndpoints),
                   likely_apis |-> Urls(likelyApiEndpoints)]]

\* the host calls probe_api_endpoints: new URL(base_url) may throw into the
\* outer catch; otherwise the handler runs up to the await of the first probe
CallProbeApiEndpoints ==
  /\ call.state = "idle"
  /\ \E a \in ProbeArgs :
       LET paths == ProbePaths(a)
           running == [tool |-> "probe_api_endpoints", args |-> a, state |-> "running",
                       value |-> EmptyObject]
       IN IF a.base_url \in InvalidUrls
          THEN /\ call' = [running EXCEPT !.state = "returned",
                             !.value = [success |-> FALSE, error |-> "Invalid URL",
                                        base_url |-> a.base_url]]
               /\ an' = [NoAnalysis EXCEPT !.pc = "done"]
               /\ mw' = NoMwRequest
          ELSE IF paths = << >>
          THEN /\ call' = [running EXCEPT !.state = "returned",
                                          !.value = ProbeResult(a, << >>)]
               /\ an' = [NoAnalysis EXCEPT !.pc = "done"]
               /\ mw' = NoMwRequest
          ELSE /\ call' = running
               /\ an' = [NoAnalysis EXCEPT !.pc = "probe", !.urls = paths, !.i = 1]
               /\ mw' = makeWebRequest(TestUrl(a, paths[1]))
  /\ UNCHANGED <<wr, br, hostException, leakedBrowsers, ws, fsop, disk, written,
                 proc, registry, peer>>

\* after the answer to probe i: its entry, then the next probe, or the return
\* after the last one
probeNext ==
  /\ an.pc = "probe"
  /\ mw.settled
  /\ LET a == call.args
         r == mw.result
         url == TestUrl(a, an.urls[an.i])
         results == Probed(an.entries, url, r)
         fetched == Append(an.fetched, Fetched(url, r))
     IN IF an.i < Len(an.urls)
        THEN /\ an' = [an EXCEPT !.i = @ + 1, !.entries = results, !.fetched = fetched]
             /\ mw' = makeWebRequest(TestUrl(a, an.urls[an.i + 1]))
             /\ UNCHANGED call
        ELSE /\ an' = [an EXCEPT !.pc = "done", !.entries = results,
                                 !.fetched = fetched]
             /\ mw' = NoMwRequest
             /\ call' = [call EXCEPT !.state = "returned",
                                     !.value = ProbeResult(a, results)]
  /\ UNCHANGED <<wr, br, hostException, leakedBrowsers, ws, fsop, disk, written,
                 proc, registry, peer>>

----------------------------------------------------------------------------
(* Filesystem plugin: src/official-plugins/filesystem-plugin/index.js *)

\* process.cwd()
Cwd == "/w"

\* the paths below the working directory that the model knows
Nodes == {"/w/f.txt", "/w/d", "/w/d/e", "/w/d/e/f.txt", "/w/d/l"}

\* path.dirname(p)
DirName(p) ==
  CASE p = "/w/d/e/f.txt" -> "/w/d/e"
    [] p \in {"/w/d/e", "/w/d/l"} -> "/w/d"
    [] OTHER -> Cwd

\* entry.name of the directory entry for p
BaseName(p) ==
  CASE p \in {"/w/f.txt", "/w/d/e/f.txt"} -> "f.txt"
    [] p = "/w/d" -> "d"
    [] p = "/w/d/e" -> "e"
    [] OTHER -> "l"

\* path.resolve(p) of a relative path; path.resolve(".") is the working
\* directory
PathResolve(p) == IF p = "." THEN Cwd ELSE Cwd \o "/" \o p

\* path.join(directory, name)
PathJoin(directory, name) == directory \o "/" \o name

\* the directories above p, below the working directory, outermost first
Ancestors(p) ==
  IF DirName(p) = Cwd THEN << >>
  ELSE IF DirName(DirName(p)) = Cwd THEN <<DirName(p)>>
  ELSE <<DirName(DirName(p)), DirName(p)>>

\* what a path names: nothing, a directory, a file with its bytes, or a
\* symbolic link whose target does not exist
Absent == [kind |-> "absent", bytes |-> << >>]

Directory == [kind |-> "directory", bytes |-> << >>]

File(bytes) == [kind |-> "file", bytes |-> bytes]

DanglingLink == [kind |-> "link", bytes |-> << >>]

EmptyDisk == [p \in Nodes |-> Absent]

\* the file systems an invocation may find
InitialDisks ==
  {EmptyDisk,
   [EmptyDisk EXCEPT !["/w/f.txt"] = File(<<97>>), !["/w/d"] = Directory,
                     !["/w/d/e"] = Directory, !["/w/d/l"] = DanglingLink],
   [EmptyDisk EXCEPT !["/w/d"] = File(<< >>)],
   [EmptyDisk EXCEPT !["/w/d"] = Directory, !["/w/d/e"] = Directory,
                     !["/w/d/e/f.txt"] = File(<<195, 169>>)]}

\* texts a caller may write: "", "a", "é€", one surrogate pair, and one
\* surrogate without its pair
Contents == {<< >>, <<97>>, <<233, 8364>>, <<55357, 56832>>, <<55357>>}

FilePaths == {"f.txt", "d/e/f.txt", "d", "nofile"}

WriteFileArgs ==
  {[file_path |-> p, content |-> c] : p \in FilePaths \ {"nofile"}, c \in Contents}

ReadFileArgs == {[file_path |-> p] : p \in FilePaths}

\* "" is falsy: args.directory_path || "."
ListDirectoryArgs == Opt("directory_path", {"", "d", "d/e", "f.txt"})

Node(d, p) == IF p \in Nodes THEN d[p] ELSE Absent

IsDirectory(d, p) == p = Cwd \/ Node(d, p).kind = "directory"

\* fs.mkdir(dir, { recursive: true }) succeeds: no path on the way names a
\* file or a link
MkdirSucceeds(d, p) ==
  \A i \in DOMAIN Ancestors(p) : Node(d, Ancestors(p)[i]).kind \in {"absent", "directory"}

\* the file system after fs.mkdir(dir, { recursive: true })
Mkdir(d, p) ==
  [n \in Nodes |-> IF n \in Range(Ancestors(p)) THEN Directory ELSE d[n]]

\* fs.writeFile(p, ...) succeeds: the parent is a directory and p names no
\* directory
WriteSucceeds(d, p) ==
  /\ p \in Nodes
  /\ IsDirectory(d, DirName(p))
  /\ d[p].kind \in {"absent", "file"}

\* a mutant of WriteFile: a file that exists keeps its bytes
WriteFileIfAbsent(d, p, content) ==
  IF d[p].kind = "file" THEN d ELSE [d EXCEPT ![p] = File(Utf8Encode(content))]

\* the file system after fs.writeFile(p, content, "utf-8"): the file is
\* created or replaced
WriteFile(d, p, content) == [d EXCEPT ![p] = File(Utf8Encode(content))]

\* fs.stat(p) succeeds: p names a file or a directory; a link is followed
StatSucceeds(d, p) == p = Cwd \/ Node(d, p).kind \in {"file", "directory"}

\* stats.size
Size(d, p) == Len(Node(d, p).bytes)

\* error.message of a rejected fs call
FsError(d, p) ==
  IF Node(d, p).kind = "directory" THEN "EISDIR: illegal operation on a directory"
  ELSE IF Node(d, p).kind = "file" THEN "ENOTDIR: not a directory"
  ELSE "ENOENT: no such file or directory"

NoFsOp == [pc |-> "none", path |-> "", content |-> << >>, entries |-> << >>]

\* the last invocation of write_file: what it wrote if it returned
\* success:true, and whether it made directories or replaced a file
NoWrite ==
  [done |-> FALSE, path |-> "", content |-> << >>, created |-> FALSE,
   replaced |-> FALSE]

FsFailure(msg, path) == [success |-> FALSE, error |-> msg, path |-> path]

\* the host calls write_file: the handler runs up to await fs.mkdir
CallWriteFile ==
  /\ call.state = "idle"
  /\ \E a \in WriteFileArgs :
       /\ call' = [tool |-> "write_file", args |-> a, state |-> "running",
                   value |-> EmptyObject]
       /\ fsop' = [NoFsOp EXCEPT !.pc = "mkdir", !.path = PathResolve(a.file_path)]
  /\ written' = NoWrite
  /\ UNCHANGED <<wr, br, hostException, leakedBrowsers, ws, mw, an, disk, proc,
                 registry, peer>>

\* await fs.mkdir(path.dirname(absolutePath), { recursive: true })
writeFileMkdir ==
  /\ fsop.pc = "mkdir"
  /\ IF MkdirSucceeds(disk, fsop.path)
     THEN /\ disk' = Mkdir(disk, fsop.path)
          /\ fsop' = [fsop EXCEPT !.pc = "write"]
          /\ written' = [written EXCEPT !.created = disk' # disk]
          /\ UNCHANGED call
     ELSE /\ call' = [call EXCEPT !.state = "returned",
                        !.value = FsFailure("EEXIST: file already exists",
                                            call.args.file_path)]
          /\ fsop' = [fsop EXCEPT !.pc = "done"]
          /\ UNCHANGED <<disk, written>>
  /\ UNCHANGED <<wr, br, hostException, leakedBrowsers, ws, mw, an, proc, registry, peer>>

\* await fs.writeFile(absolutePath, content, "utf-8")
writeFileWrite ==
  /\ fsop.pc = "write"
  /\ IF WriteSucceeds(disk, fsop.path)
     THEN /\ disk' = WriteFile(disk, fsop.path, call.args.content)
          /\ fsop' = [fsop EXCEPT !.pc = "stat"]
          /\ written' = [written EXCEPT !.replaced = disk[fsop.path].kind = "file"]
          /\ UNCHANGED call
     ELSE /\ call' = [call EXCEPT !.state = "returned",
                        !.value = FsFailure(FsError(disk, fsop.path),
                                            call.args.file_path)]
          /\ fsop' = [fsop EXCEPT !.pc = "done"]
          /\ UNCHANGED <<disk, written>>
  /\ UNCHANGED <<wr, br, hostException, leakedBrowsers, ws, mw, an, proc, registry, peer>>

\* await fs.stat(absolutePath), and the return of writeFileHandler
writeFileStat ==
  /\ fsop.pc = "stat"
  /\ call.tool = "write_file"
  /\ call' = [call EXCEPT !.state = "returned",
                !.value = [success |-> TRUE, path |-> fsop.path,
                           bytes_written |-> Size(disk, fsop.path)]]
  /\ fsop' = [fsop EXCEPT !.pc = "done"]
  /\ written' = [written EXCEPT !.done = TRUE, !.path = fsop.path,
                                !.content = call.args.content]
  /\ UNCHANGED <<wr, br, hostException, leakedBrowsers, ws, mw, an, disk, proc,
                 registry, peer>>

\* a second invocation of writeFileHandler, which the host starts while
\* another call is awaited: its position and its arguments
NoPeer == [pc |-> "none", path |-> "", content |-> << >>]

\* the second invocation starts and runs up to await fs.mkdir
peerCallWriteFile ==
  /\ peer.pc = "none"
  /\ call.state = "running"
  /\ \E a \in WriteFileArgs :
       peer' = [pc |-> "mkdir", path |-> PathResolve(a.file_path),
                content |-> a.content]
  /\ UNCHANGED <<call, wr, br, hostException, leakedBrowsers, ws, mw, an, fsop, disk,
                 written, proc, registry>>

\* its await fs.mkdir: a rejection ends it in the catch
peerMkdir ==
  /\ peer.pc = "mkdir"
  /\ IF MkdirSucceeds(disk, peer.path)
     THEN disk' = Mkdir(disk, peer.path) /\ peer' = [peer EXCEPT !.pc = "write"]
     ELSE peer' = NoPeer /\ UNCHANGED disk
  /\ UNCHANGED <<call, wr, br, hostException, leakedBrowsers, ws, mw, an, fsop,
                 written, proc, registry>>

\* its await fs.writeFile
peerWrite ==
  /\ peer.pc = "write"
  /\ IF WriteSucceeds(disk, peer.path)
     THEN /\ disk' = WriteFile(disk, peer.path, peer.content)
          /\ peer' = [peer EXCEPT !.pc = "stat"]
     ELSE peer' = NoPeer /\ UNCHANGED disk
  /\ UNCHANGED <<call, wr, br, hostException, leakedBrowsers, ws, mw, an, fsop,
                 written, proc, registry>>

\* its await fs.stat, and its return
peerStat ==
  /\ peer.pc = "stat"
  /\ peer' = NoPeer
  /\ UNCHANGED <<call, wr, br, hostException, leakedBrowsers, ws, mw, an, fsop, disk,
                 written, proc, registry>>

\* the host calls read_file: the handler runs up to await fs.readFile
CallReadFile ==
  /\ call.state = "idle"
  /\ \E a \in ReadFileArgs :
       /\ call' = [tool |-> "read_file", args |-> a, state |-> "running",
                   value |-> EmptyObject]
       /\ fsop' = [NoFsOp EXCEPT !.pc = "read", !.path = PathResolve(a.file_path)]
  /\ UNCHANGED <<wr, br, hostException, leakedBrowsers, ws, mw, an, disk, written,
                 proc, registry, peer>>

\* await fs.readFile(absolutePath, "utf-8")
readFileRead ==
  /\ fsop.pc = "read"
  /\ IF Node(disk, fsop.path).kind = "file"
     THEN /\ fsop' = [fsop EXCEPT !.pc = "stat",
                                  !.content = Utf8Decode(disk[fsop.path].bytes)]
          /\ UNCHANGED call
     ELSE /\ call' = [call EXCEPT !.state = "returned",
                        !.value = FsFailure(FsError(disk, fsop.path),
                                            call.args.file_path)]
          /\ fsop' = [fsop EXCEPT !.pc = "done"]
  /\ UNCHANGED <<wr, br, hostException, leakedBrowsers, ws, mw, an, disk, written,
                 proc, registry, peer>>

\* await fs.stat(absolutePath), and the return of readFileHandler
readFileStat ==
  /\ fsop.pc = "stat"
  /\ call.tool = "read_file"
  /\ call' = [call EXCEPT !.state = "returned",
                !.value = [success |-> TRUE, content |-> fsop.content,
                           path |-> fsop.path, size |-> Size(disk, fsop.path),
                           modified |-> "mtime"]]
  /\ fsop' = [fsop EXCEPT !.pc = "done", !.content = << >>]
  /\ UNCHANGED <<wr, br, hostException, leakedBrowsers, ws, mw, an, disk, written,
                 proc, registry, peer>>

\* the paths of the entries of a directory
Children(d, directory) ==
  {n \in Nodes : DirName(n) = directory /\ d[n].kind # "absent"}

\* the orders in which fs.readdir may enumerate a set of entries
Enumerations(S) ==
  {e \in [1..Cardinality(S) -> S] : \A i, j \in DOMAIN e : i # j => e[i] # e[j]}

ListedPath(a) == PathResolve(IF Arg(a, "directory_path", "") = "" THEN "."
                             ELSE a.directory_path)

ListFailurePath(a) ==
  IF Arg(a, "directory_path", "") = "" THEN "." ELSE a.directory_path

\* the host calls list_directory: the handler runs up to await fs.readdir
CallListDirectory ==
  /\ call.state = "idle"
  /\ \E a \in ListDirectoryArgs :
       /\ call' = [tool |-> "list_directory", args |-> a, state |-> "running",
                   value |-> EmptyObject]
       /\ fsop' = [NoFsOp EXCEPT !.pc = "readdir", !.path = ListedPath(a)]
  /\ UNCHANGED <<wr, br, hostException, leakedBrowsers, ws, mw, an, disk, written,
                 proc, registry, peer>>

\* await fs.readdir(absolutePath, { withFileTypes: true })
listDirectoryReaddir ==
  /\ fsop.pc = "readdir"
  /\ IF IsDirectory(disk, fsop.path)
     THEN /\ \E e \in Enumerations(Children(disk, fsop.path)) :
               fsop' = [fsop EXCEPT !.pc = "stats", !.entries = e]
          /\ UNCHANGED call
     ELSE /\ call' = [call EXCEPT !.state = "returned",
                        !.value = FsFailure(FsError(disk, fsop.path),
                                            ListFailurePath(call.args))]
          /\ fsop' = [fsop EXCEPT !.pc = "done"]
  /\ UNCHANGED <<wr, br, hostException, leakedBrowsers, ws, mw, an, disk, written,
                 proc, registry, peer>>

\* the object one callback of entries.map returns
EntryDetails(d, p) ==
  [name |-> BaseName(p),
   type |-> IF d[p].kind = "directory" THEN "directory" ELSE "file",
   size |-> Size(d, p), modified |-> "mtime"]

\* await Promise.all(entries.map(...)), and the return of
\* listDirectoryHandler: one fs.stat that rejects rejects the whole
listDirectoryStats ==
  /\ fsop.pc = "stats"
  /\ call' = [call EXCEPT !.state = "returned",
                !.value =
                  IF \A i \in DOMAIN fsop.entries : StatSucceeds(disk, fsop.entries[i])
                  THEN [success |-> TRUE, path |-> fsop.path,
                        entries |-> [i \in DOMAIN fsop.entries |->
                                       EntryDetails(disk, fsop.entries[i])]]
                  ELSE FsFailure("ENOENT: no such file or directory",
                                 ListFailurePath(call.args))]
  /\ fsop' = [fsop EXCEPT !.pc = "done"]
  /\ UNCHANGED <<wr, br, hostException, leakedBrowsers, ws, mw, an, disk, written,
                 proc, registry, peer>>

\* getCwdHandler: no await
CallGetCwd ==
  /\ call.state = "idle"
  /\ call' = [tool |-> "get_cwd", args |-> EmptyObject, state |-> "returned",
              value |-> [success |-> TRUE, cwd |-> Cwd]]
  /\ UNCHANGED <<wr, br, hostException, leakedBrowsers, otherTools>>

----------------------------------------------------------------------------
(* Example plugin: src/unnamed/part_000 *)

\* the code units texts are made of: a, é, €, and the two halves of a
\* surrogate pair
CodeUnits == {97, 233, 8364, 55357, 56832}

Texts == UNION {[1..n -> CodeUnits] : n \in 0..MaxTextLen}

\* the base64 alphabet, the character of value v at index v + 1
Base64Alphabet ==
  <<"A", "B", "C", "D", "E", "F", "G", "H", "I", "J", "K", "L", "M", "N", "O", "P",
    "Q", "R", "S", "T", "U", "V", "W", "X", "Y", "Z", "a", "b", "c", "d", "e", "f",
    "g", "h", "i", "j", "k", "l", "m", "n", "o", "p", "q", "r", "s", "t", "u", "v",
    "w", "x", "y", "z", "0", "1", "2", "3", "4", "5", "6", "7", "8", "9", "+", "/">>

Base64Char(v) == Base64Alphabet[v + 1]

Base64Value(c) == (CHOOSE i \in DOMAIN Base64Alphabet : Base64Alphabet[i] = c) - 1

\* buffer.toString('base64'): three bytes give four characters, and the
\* last group is padded with "="
RECURSIVE Base64Encode(_)
Base64Encode(bytes) ==
  IF bytes = << >> THEN << >>
  ELSE IF Len(bytes) = 1
  THEN <<Base64Char(bytes[1] \div 4), Base64Char((bytes[1] % 4) * 16), "=", "=">>
  ELSE IF Len(bytes) = 2
  THEN <<Base64Char(bytes[1] \div 4),
         Base64Char((bytes[1] % 4) * 16 + (bytes[2] \div 16)),
         Base64Char((bytes[2] % 16) * 4), "=">>
  ELSE <<Base64Char(bytes[1] \div 4),
         Base64Char((bytes[1] % 4) * 16 + (bytes[2] \div 16)),
         Base64Char((bytes[2] % 16) * 4 + (bytes[3] \div 64)),
         Base64Char(bytes[3] % 64)>> \o Base64Encode(SubSeq(bytes, 4, Len(bytes)))

\* the characters before the first "=" that belong to the alphabet
Base64Digits(chars) ==
  LET pads == {i \in DOMAIN chars : chars[i] = "="}
      end == IF pads = {} THEN Len(chars)
             ELSE (CHOOSE i \in pads : \A j \in pads : i <= j) - 1
  IN SelectSeq(SubSeq(chars, 1, end), LAMBDA c : c \in Range(Base64Alphabet))

\* the bytes of a sequence of digits: four digits give three bytes, three
\* give two, two give one
RECURSIVE Base64Bytes(_)
Base64Bytes(digits) ==
  LET v(i) == Base64Value(digits[i])
  IN IF Len(digits) < 2 THEN << >>
     ELSE IF Len(digits) = 2 THEN <<v(1) * 4 + (v(2) \div 16)>>
     ELSE IF Len(digits) = 3
     THEN <<v(1) * 4 + (v(2) \div 16), (v(2) % 16) * 16 + (v(3) \div 4)>>
     ELSE <<v(1) * 4 + (v(2) \div 16), (v(2) % 16) * 16 + (v(3) \div 4),
            (v(3) % 4) * 64 + v(4)>> \o Base64Bytes(SubSeq(digits, 5, Len(digits)))

\* Buffer.from(chars, 'base64')
Base64Decode(chars) == Base64Bytes(Base64Digits(chars))

\* the object base64EncodeHandler returns
base64EncodeHandler(a) ==
  LET encoded == Base64Encode(Utf8Encode(a.text))
  IN [success |-> TRUE, original |-> a.text, encoded |-> encoded,
      length |-> Len(encoded)]

\* the object base64DecodeHandler returns
base64DecodeHandler(a) ==
  LET decoded == Utf8Decode(Base64Decode(a.encoded_text))
  IN [success |-> TRUE, encoded |-> a.encoded_text, decoded |-> decoded,
      length |-> Len(decoded)]

\* the texts a caller may hand to base64_decode: what base64_encode returned
\* for a text, and two texts with a blank and a missing pad
EncodedTexts ==
  {base64EncodeHandler([text |-> t]).encoded : t \in Texts}
    \cup {<<"Y", "Q", " ", "=", "=">>, <<"Y", "Q">>}

Algorithms == {"md5", "sha1", "sha256", "sha512", "crc32"}

\* the number of hex digits of a digest
DigestLength(algorithm) ==
  CASE algorithm = "md5" -> 32
    [] algorithm = "sha1" -> 40
    [] algorithm = "sha256" -> 64
    [] OTHER -> 128

\* the object hashTextHandler returns: crypto.createHash throws for a name
\* that is no digest; a digest stands for the algorithm and the bytes hashed
hashTextHandler(a) ==
  LET algorithm == Arg(a, "algorithm", "sha256")
  IN IF algorithm \notin {"md5", "sha1", "sha256", "sha512"}
     THEN [success |-> FALSE, error |-> "Digest method not supported"]
     ELSE [success |-> TRUE, original |-> a.text, algorithm |-> algorithm,
           hash |-> <<algorithm, Utf8Encode(a.text)>>,
           length |-> DigestLength(algorithm)]

\* the host calls base64_encode; the handler has no await
CallBase64Encode ==
  /\ call.state = "idle"
  /\ \E a \in {[text |-> t] : t \in Texts} :
       call' = [tool |-> "base64_encode", args |-> a, state |-> "returned",
                value |-> base64EncodeHandler(a)]
  /\ UNCHANGED <<wr, br, hostException, leakedBrowsers, otherTools>>

\* the host calls base64_decode; the handler has no await
CallBase64Decode ==
  /\ call.state = "idle"
  /\ \E a \in {[encoded_text |-> e] : e \in EncodedTexts} :
       call' = [tool |-> "base64_decode", args |-> a, state |-> "returned",
                value |-> base64DecodeHandler(a)]
  /\ UNCHANGED <<wr, br, hostException, leakedBrowsers, otherTools>>

\* the host calls hash_text; the handler has no await
CallHashText ==
  /\ call.state = "idle"
  /\ \E a \in {t @@ g : t \in {[text |-> x] : x \in {<< >>, <<97>>}},
                        g \in Opt("algorithm", Algorithms)} :
       call' = [tool |-> "hash_text", args |-> a, state |-> "returned",
                value |-> hashTextHandler(a)]
  /\ UNCHANGED <<wr, br, hostException, leakedBrowsers, otherTools>>

----------------------------------------------------------------------------
(* Command plugin: src/README.md *)

\* maxBuffer: 1024 * 1024 * 10
MaxBuffer == 1024 * 1024 * 10

\* error.code, which is a number, a string or null, with its JSON type
JsonNumber(n) == [number |-> n]

JsonString(s) == [string |-> s]

JsonNull == [null |-> TRUE]

\* characters that String.prototype.trim() removes
Whitespace == {" ", "\n"}

\* s.trim() for a string given as the sequence of its characters
RECURSIVE TrimStart(_)
TrimStart(s) ==
  IF s # << >> /\ Head(s) \in Whitespace THEN TrimStart(Tail(s)) ELSE s

RECURSIVE TrimEnd(_)
TrimEnd(s) ==
  IF s # << >> /\ s[Len(s)] \in Whitespace THEN TrimEnd(SubSeq(s, 1, Len(s) - 1)) ELSE s

Trim(s) == TrimEnd(TrimStart(s))

\* what a child writes at once: a line, a blank, or more characters than
\* maxBuffer, of which the text keeps the first
OutputChunks ==
  {[text |-> <<"o", "k", "\n">>, length |-> 3], [text |-> <<" ">>, length |-> 1],
   [text |-> <<"x">>, length |-> MaxBuffer + 1]}

ExitCodes == {0, 1, 127}

CommandArgs ==
  {c @@ w : c \in {[command |-> "ls"]}, w \in Opt("working_directory", {"/w", "/nodir"})}

\* const { working_directory = process.cwd() } = args
WorkingDirectory(a) == Arg(a, "working_directory", "/w")

NoProcess ==
  [state |-> "none", stdout |-> << >>, stderr |-> << >>, length |-> 0,
   chunks |-> 0, overflow |-> FALSE, exit |-> EmptyObject]

\* the object of the try block
CommandSuccess(a, p) ==
  [success |-> TRUE, stdout |-> Trim(p.stdout), stderr |-> Trim(p.stderr),
   working_directory |-> WorkingDirectory(a)]

\* a mutant of CommandFailure: the output of the failed command is dropped
CommandFailureNoOutput(msg, p, code) ==
  [success |-> FALSE, error |-> msg, stdout |-> << >>, stderr |-> << >>,
   exit_code |-> code]

\* the object of the catch block: error.stdout?.trim() || ""
CommandFailure(msg, p, code) ==
  [success |-> FALSE, error |-> msg, stdout |-> Trim(p.stdout),
   stderr |-> Trim(p.stderr), exit_code |-> code]

\* the host calls execute_command: the handler runs up to await execAsync,
\* which spawns the shell
CallExecuteCommand ==
  /\ call.state = "idle"
  /\ \E a \in CommandArgs :
       call' = [tool |-> "execute_command", args |-> a, state |-> "running",
                value |-> EmptyObject]
  /\ proc' = [NoProcess EXCEPT !.state = "spawning"]
  /\ UNCHANGED <<wr, br, hostException, leakedBrowsers, ws, mw, an, fsop, disk,
                 written, registry, peer>>

\* the shell starts in the working directory, or the child emits 'error'
\* because the directory does not exist and execAsync rejects
childSpawn ==
  /\ proc.state = "spawning"
  /\ IF WorkingDirectory(call.args) = "/w"
     THEN /\ proc' = [proc EXCEPT !.state = "running"]
          /\ UNCHANGED call
     ELSE /\ proc' = [proc EXCEPT !.state = "failed"]
          /\ call' = [call EXCEPT !.state = "returned",
                        !.value = CommandFailure("spawn /bin/sh ENOENT", proc,
                                                 JsonString("ENOENT"))]
  /\ UNCHANGED <<wr, br, hostException, leakedBrowsers, ws, mw, an, fsop, disk,
                 written, registry, peer>>

\* 'data' of child.stdout: the chunk is kept, or, when it takes the length
\* over maxBuffer, cut and the child is killed
childStdout ==
  /\ proc.state = "running"
  /\ ~proc.overflow
  /\ proc.chunks < MaxOutput
  /\ \E chunk \in OutputChunks :
       proc' = [proc EXCEPT !.stdout = @ \o chunk.text,
                            !.length = IF @ + chunk.length > MaxBuffer THEN MaxBuffer
                                       ELSE @ + chunk.length,
                            !.chunks = @ + 1,
                            !.overflow = proc.length + chunk.length > MaxBuffer]
  /\ UNCHANGED <<call, wr, br, hostException, leakedBrowsers, ws, mw, an, fsop, disk,
                 written, registry, peer>>

\* 'data' of child.stderr
childStderr ==
  /\ proc.state = "running"
  /\ ~proc.overflow
  /\ proc.chunks < MaxOutput
  /\ \E chunk \in OutputChunks \ {c \in OutputChunks : c.length > MaxBuffer} :
       proc' = [proc EXCEPT !.stderr = @ \o chunk.text, !.chunks = @ + 1]
  /\ UNCHANGED <<call, wr, br, hostException, leakedBrowsers, ws, mw, an, fsop, disk,
                 written, registry, peer>>

\* how a child ends: with an exit code, or killed by a signal
Exits == {[code |-> c] : c \in ExitCodes} \cup {[signal |-> "SIGTERM"]}

\* error.code of the rejection of execAsync
ErrorCode(p, exit) ==
  IF p.overflow THEN JsonString("ERR_CHILD_PROCESS_STDIO_MAXBUFFER")
  ELSE IF Has(exit, "signal") THEN JsonNull
  ELSE JsonNumber(exit.code)

\* 'close' of the child: execAsync fulfils when no error is pending, the
\* code is 0 and there is no signal, and rejects otherwise; then the return
\* of executeCommandHandler
childClose ==
  /\ proc.state = "running"
  /\ \E exit \in Exits :
       /\ proc' = [proc EXCEPT !.state = "closed", !.exit = exit]
       /\ call' = [call EXCEPT !.state = "returned",
                     !.value = IF ~proc.overflow /\ Has(exit, "code") /\ exit.code = 0
                               THEN CommandSuccess(call.args, proc)
                               ELSE CommandFailure("Command failed: ls", proc,
                                                   ErrorCode(proc, exit))]
  /\ UNCHANGED <<wr, br, hostException, leakedBrowsers, ws, mw, an, fsop, disk,
                 written, registry, peer>>

----------------------------------------------------------------------------
(* Plugin initialisation: the init function of each plugin *)

Plugins == {"command", "filesystem", "web", "web-analysis", "example"}

\* a tool descriptor, of which the model keeps the name
Definition(name) == [type |-> "function", name |-> name]

NoRegistry == [loaded |-> {}, tools |-> << >>]

\* a mutant of Register: the registration is made twice
RegisterTwice(tools, descriptor, handler) ==
  tools \o <<[descriptor |-> descriptor, handler |-> handler],
             [descriptor |-> descriptor, handler |-> handler]>>

\* toolRegistry.register(descriptor, handler)
Register(tools, descriptor, handler) ==
  Append(tools, [descriptor |-> descriptor, handler |-> handler])

\* the loader runs the init of a plugin once
Load(plugin, tools) ==
  /\ plugin \notin registry.loaded
  /\ registry' = [loaded |-> registry.loaded \cup {plugin}, tools |-> tools]
  /\ UNCHANGED <<call, wr, br, hostException, leakedBrowsers, ws, mw, an, fsop, disk,
                 written, proc, peer>>

\* init of the command plugin
initCommand ==
  Load("command",
       Register(registry.tools, Definition("execute_command"), "executeCommandHandler"))

\* init of the filesystem plugin
initFilesystem ==
  Load("filesystem",
       Register(
         Register(
           Register(
             Register(registry.tools, Definition("read_file"), "readFileHandler"),
             Definition("write_file"), "writeFileHandler"),
           Definition("list_directory"), "listDirectoryHandler"),
         Definition("get_cwd"), "getCwdHandler"))

\* init of the web plugin
initWeb ==
  Load("web",
       Register(
         Register(
           Register(registry.tools, Definition("web_request"), "webRequestHandler"),
           Definition("browse_website"), "browseWebsiteHandler"),
         Definition("web_search"), "webSearchHandler"))

\* init of the web analysis plugin
initWebAnalysis ==
  Load("web-analysis",
       Register(
         Register(registry.tools, Definition("analyze_javascript"),
                  "analyzeJavaScriptHandler"),
         Definition("probe_api_endpoints"), "probeApiEndpointsHandler"))

\* init of the example plugin
initExample ==
  Load("example",
       Register(
         Register(
           Register(registry.tools, Definition("base64_encode"), "base64EncodeHandler"),
           Definition("base64_decode"), "base64DecodeHandler"),
         Definition("hash_text"), "hashTextHandler"))

----------------------------------------------------------------------------
(* The host *)

Idle == [tool |-> "none", args |-> EmptyObject, state |-> "idle", value |-> EmptyObject]

\* the host calls web_request
CallWebRequest ==
  /\ call.state = "idle"
  /\ \E a \in WebRequestArgs :
       /\ call' = [tool |-> "web_request", args |-> a, state |-> "running",
                   value |-> EmptyObject]
       /\ wr' = webRequestHandler(a)
  /\ UNCHANGED <<br, hostException, leakedBrowsers, otherTools>>

\* the promise webRequestHandler returned is fulfilled
ReturnWebRequest ==
  /\ call.tool = "web_request" /\ call.state = "running"
  /\ wr.settled
  /\ call' = [call EXCEPT !.state = "returned", !.value = wr.result]
  /\ UNCHANGED <<wr, br, hostException, leakedBrowsers, otherTools>>

\* a mutant of HostNext: the analysis keeps its patterns and findings in
\* variables of the module, which outlive the invocation
HostNextSharedAnalysis ==
  /\ call.state \in {"returned", "rejected"}
  /\ wr.phase \in {"none", "closed"}
  /\ call' = Idle
  /\ wr' = NoRequest
  /\ br' = NoBrowse
  /\ ws' = NoSearch
  /\ mw' = NoMwRequest
  /\ fsop' = NoFsOp
  /\ proc' = NoProcess
  /\ leakedBrowsers' = IF br.browser = "open" /\ leakedBrowsers < MaxLeaked
                       THEN leakedBrowsers + 1 ELSE leakedBrowsers
  /\ UNCHANGED <<hostException, an, disk, written, registry, peer>>

\* the host takes the result and is ready for the next call
HostNext ==
  /\ call.state \in {"returned", "rejected"}
  /\ wr.phase \in {"none", "closed"}
  /\ call' = Idle
  /\ wr' = NoRequest
  /\ br' = NoBrowse
  /\ ws' = NoSearch
  /\ mw' = NoMwRequest
  /\ an' = NoAnalysis
  /\ fsop' = NoFsOp
  /\ proc' = NoProcess
  /\ leakedBrowsers' = IF br.browser = "open" /\ leakedBrowsers < MaxLeaked
                       THEN leakedBrowsers + 1 ELSE leakedBrowsers
  /\ UNCHANGED <<hostException, disk, written, registry, peer>>

\* every variable but the file system is as the plugins' modules leave it
Ready ==
  /\ call = Idle
  /\ wr = NoRequest
  /\ br = NoBrowse
  /\ hostException = FALSE
  /\ leakedBrowsers = 0
  /\ ws = NoSearch
  /\ mw = NoMwRequest
  /\ an = NoAnalysis
  /\ fsop = NoFsOp
  /\ written = NoWrite
  /\ proc = NoProcess
  /\ registry = NoRegistry
  /\ peer = NoPeer

Init == Ready /\ disk = EmptyDisk

\* the filesystem plugin may find any of the initial file systems
InitFs == Ready /\ disk \in InitialDisks

Next ==
  \/ CallWebRequest
  \/ ReturnWebRequest
  \/ CallBrowseWebsite
  \/ puppeteerLaunch
  \/ pageSetup
  \/ pageGoto
  \/ pageContent
  \/ browserClose
  \/ catchClose
  \/ browseStaticReturn
  \/ reqOnError
  \/ reqOnResponse
  \/ resOnData
  \/ resOnEnd
  \/ reqOnTimeout
  \/ socketClose
  \/ HostNext

Spec == Init /\ [][Next]_vars

\* the web plugin serving web_search
NextSearch ==
  \/ CallWebSearch
  \/ webSearchPrimary
  \/ webSearchScrape
  \/ reqOnError
  \/ reqOnResponse
  \/ resOnData
  \/ resOnEnd
  \/ reqOnTimeout
  \/ socketClose
  \/ HostNext

SpecSearch == Init /\ [][NextSearch]_vars

\* the web analysis plugin
NextAnalysis ==
  \/ CallAnalyzeJavaScript
  \/ analyzePage
  \/ analyzeFile
  \/ CallProbeApiEndpoints
  \/ probeNext
  \/ mwOnError
  \/ mwOnResponse
  \/ mwOnData
  \/ mwOnEnd
  \/ mwOnTimeout
  \/ mwSocketClose
  \/ HostNext

SpecAnalysis == Init /\ [][NextAnalysis]_vars

\* the web analysis plugin analysing the large page
NextLargePage ==
  \/ CallAnalyzeLargePage
  \/ analyzePage
  \/ analyzeFile
  \/ mwOnError
  \/ mwOnResponse
  \/ mwOnData
  \/ mwOnEnd
  \/ mwOnTimeout
  \/ mwSocketClose
  \/ HostNext

SpecLargePage == Init /\ [][NextLargePage]_vars

\* the filesystem plugin
NextFs ==
  \/ CallWriteFile
  \/ writeFileMkdir
  \/ writeFileWrite
  \/ writeFileStat
  \/ CallReadFile
  \/ readFileRead
  \/ readFileStat
  \/ CallListDirectory
  \/ listDirectoryReaddir
  \/ listDirectoryStats
  \/ CallGetCwd
  \/ HostNext

SpecFs == InitFs /\ [][NextFs]_vars

\* write_file and read_file while a second write_file runs
NextConcurrent ==
  \/ CallWriteFile
  \/ writeFileMkdir
  \/ writeFileWrite
  \/ writeFileStat
  \/ CallReadFile
  \/ readFileRead
  \/ readFileStat
  \/ peerCallWriteFile
  \/ peerMkdir
  \/ peerWrite
  \/ peerStat
  \/ HostNext

SpecConcurrent == InitFs /\ [][NextConcurrent]_vars

\* the command plugin
NextCommand ==
  \/ CallExecuteCommand
  \/ childSpawn
  \/ childStdout
  \/ childStderr
  \/ childClose
  \/ HostNext

SpecCommand == Init /\ [][NextCommand]_vars

\* the example plugin
NextExample ==
  \/ CallBase64Encode
  \/ CallBase64Decode
  \/ CallHashText
  \/ HostNext

SpecExample == Init /\ [][NextExample]_vars

\* the loader, which runs the init of the five plugins in any order
NextInit ==
  \/ initCommand
  \/ initFilesystem
  \/ initWeb
  \/ initWebAnalysis
  \/ initExample

SpecInit == Init /\ [][NextInit]_vars

\* the registry once the loader has run the init of the five plugins, here
\* in the order command, filesystem, web, web analysis, example
LoadedRegistry ==
  LET Registered(tools, names) ==
        LET RECURSIVE All(_, _)
            All(ts, i) ==
              IF i > Len(names) THEN ts
              ELSE All(Register(ts, Definition(names[i][1]), names[i][2]), i + 1)
        IN All(tools, 1)
  IN [loaded |-> Plugins,
      tools |-> Registered(<< >>,
        << <<"execute_command", "executeCommandHandler">>,
           <<"read_file", "readFileHandler">>,
           <<"write_file", "writeFileHandler">>,
           <<"list_directory", "listDirectoryHandler">>,
           <<"get_cwd", "getCwdHandler">>,
           <<"web_request", "webRequestHandler">>,
           <<"browse_website", "browseWebsiteHandler">>,
           <<"web_search", "webSearchHandler">>,
           <<"analyze_javascript", "analyzeJavaScriptHandler">>,
           <<"probe_api_endpoints", "probeApiEndpointsHandler">>,
           <<"base64_encode", "base64EncodeHandler">>,
           <<"base64_decode", "base64DecodeHandler">>,
           <<"hash_text", "hashTextHandler">> >>)]

\* the plugins are loaded and the host has made no call yet; the file system
\* holds a file, a directory and a link
InitLoaded ==
  /\ call = Idle
  /\ wr = NoRequest
  /\ br = NoBrowse
  /\ hostException = FALSE
  /\ leakedBrowsers = 0
  /\ ws = NoSearch
  /\ mw = NoMwRequest
  /\ an = NoAnalysis
  /\ fsop = NoFsOp
  /\ written = NoWrite
  /\ proc = NoProcess
  /\ registry = LoadedRegistry
  /\ peer = NoPeer
  /\ disk \in {d \in InitialDisks : d["/w/f.txt"] # Absent}

\* the host calls the tools of the loaded plugins one after the other; no
\* call writes to the file system, which stays as it was found
NextLoaded ==
  \/ CallWebRequest
  \/ ReturnWebRequest
  \/ reqOnError
  \/ reqOnResponse
  \/ resOnData
  \/ resOnEnd
  \/ reqOnTimeout
  \/ socketClose
  \/ CallAnalyzeJavaScript
  \/ analyzePage
  \/ analyzeFile
  \/ mwOnError
  \/ mwOnResponse
  \/ mwOnData
  \/ mwOnEnd
  \/ mwOnTimeout
  \/ mwSocketClose
  \/ CallReadFile
  \/ readFileRead
  \/ readFileStat
  \/ CallListDirectory
  \/ listDirectoryReaddir
  \/ listDirectoryStats
  \/ CallGetCwd
  \/ NextCommand
  \/ NextExample

SpecLoaded == InitLoaded /\ [][NextLoaded]_vars

----------------------------------------------------------------------------
(* Claims *)

Returned(tool) == call.tool = tool /\ call.state = "returned"

CallerHeaders == Arg(wr.args, "headers", EmptyObject)

\* C1: every handler invocation ends with a returned JSON text that has a
\* boolean success; no exception reaches the host and no promise is rejected.
C1_HandlersReturnJSON ==
  /\ ~hostException
  /\ call.state # "rejected"
  /\ call.state = "returned" =>
       Has(call.value, "success") /\ call.value.success \in BOOLEAN

\* C2: a browser that browse_website launched is closed when the static
\* fallback starts and when the handler returns, and no finished invocation
\* leaves a browser open.
C2_BrowserClosedOnEveryExit ==
  /\ br.pc \in {"static", "done"} => br.browser # "open"
  /\ leakedBrowsers = 0

\* C3: the primary mode runs first; an exception raised at the launch, the page
\* set-up, the navigation, the content capture or the close makes the static
\* fallback run exactly once; without an exception the fallback does not run.
C3_FallbackExactlyOnce ==
  /\ br.pc # "none" => Len(br.modes) >= 1 /\ br.modes[1] = "puppeteer"
  /\ (br.raised # "none" /\ br.pc # "catch") => br.modes = <<"puppeteer", "static">>
  /\ (br.raised = "none" /\ br.pc # "none") => br.modes = <<"puppeteer">>
  /\ (Returned("browse_website") /\ br.raised = "none") =>
       call.value.rendered_with = "puppeteer"

C3_Witness ==
  /\ Returned("browse_website")
  /\ br.raised = "close"
  /\ br.modes = <<"puppeteer", "static">>
  /\ call.value.success

\* C4 as claimed: whenever the primary mode threw, the result is success:true
\* with rendered_with "static".
C4_FallbackAlwaysSucceeds ==
  (Returned("browse_website") /\ br.raised # "none") =>
    call.value.success /\ call.value.rendered_with = "static"

\* C4 amended: when the primary mode threw, the result is success:true with
\* rendered_with "static" if the request of the static fallback returned a
\* response, and {success:false, error} with the request's error if it failed.
C4_FallbackResult ==
  (Returned("browse_website") /\ br.raised # "none") =>
    IF wr.result.success
    THEN call.value.success /\ call.value.rendered_with = "static"
    ELSE ~call.value.success /\ call.value.error = wr.result.error

C4_Witness ==
  /\ Returned("browse_website")
  /\ br.raised = "launch"
  /\ call.value.success
  /\ call.value.rendered_with = "static"

\* C5: an error of either path of browse_website that no internal fallback
\* absorbs comes back as {success:false, error, url}; nothing escapes the handler.
C5_BrowseErrorsReturned ==
  call.tool = "browse_website" =>
    /\ ~hostException
    /\ call.state # "rejected"
    /\ (call.state = "returned" /\ ~call.value.success) =>
         /\ {"success", "error"} \subseteq DOMAIN call.value
         /\ Has(call.args, "url") => Has(call.value, "url") /\ call.value.url = call.args.url

\* C6: a successful result of browse_website has the top-level fields and the
\* element fields of the primary mode, whichever mode produced it.
C6_SameShapeBothModes ==
  (Returned("browse_website") /\ call.value.success) =>
    LET v == call.value
    IN /\ DOMAIN v = DOMAIN PuppeteerResult([url |-> ValidUrl], 200, EmptyObject, << >>, {})
       /\ v.rendered_with \in {"puppeteer", "static"}
       /\ \A i \in DOMAIN v.links :
            DOMAIN v.links[i] =
              IF v.links[i].type = "link" THEN DOMAIN DomLink ELSE DOMAIN DomButton
       /\ \A i \in DOMAIN v.forms :
            /\ DOMAIN v.forms[i] = DOMAIN DomForm
            /\ \A j \in DOMAIN v.forms[i].inputs :
                 DOMAIN v.forms[i].inputs[j] = DOMAIN DomInput
       /\ \A i \in DOMAIN v.scripts : DOMAIN v.scripts[i] = DOMAIN DomScript

\* C7: every web_request returns: once no further event of the request can
\* arrive its promise is settled, and a failed request is settled with
\* {success:false, error}.
C7_WebRequestAlwaysReturns ==
  /\ wr.phase = "closed" => wr.settled
  /\ wr.settled =>
       /\ Has(wr.result, "success")
       /\ ~wr.result.success => Has(wr.result, "error")

\* C8 as claimed: after the timeout fired the request is destroyed and the
\* result is {success:false, error:"Request timeout"}.
C8_TimeoutErrorExact ==
  wr.timedOut =>
    wr.destroyed /\ wr.settled /\ ~wr.result.success /\ wr.result.error = "Request timeout"

\* C8 amended: after the timeout fired the request is destroyed and the result
\* is {success:false, error:"Request timeout (30s)", url, method}, also after
\* the events that follow the destroy.
C8_TimeoutResult ==
  /\ wr.timedOut =>
       /\ wr.destroyed /\ wr.settled
       /\ ~wr.result.success /\ wr.result.error = "Request timeout (30s)"
       /\ wr.result.method = Arg(wr.args, "method", "GET")
  /\ (Returned("web_request") /\ wr.timedOut) => call.value = wr.result

C8_Witness ==
  /\ Returned("web_request")
  /\ wr.timedOut
  /\ wr.phase = "closed"
  /\ call.value.error = "Request timeout (30s)"

C10_CallerHeadersWin ==
  wr.phase # "none" =>
    /\ \A k \in DOMAIN CallerHeaders : wr.headers[k] = CallerHeaders[k]
    /\ (Len(Arg(wr.args, "data", << >>)) > 0
          /\ Arg(wr.args, "method", "GET") \in {"POST", "PUT"}) =>
         /\ Has(wr.headers, "Content-Length")
         /\ Has(wr.headers, "Content-Type")
         /\ wr.headers["Content-Type"] = DefaultContentType =>
              ~Has(CallerHeaders, "Content-Type")

\* C10 amended: in the headers object handed to the HTTP client every header
\* the caller supplied has the caller's value, except that for POST/PUT with
\* non-empty data Content-Length is always the byte length of data and an empty
\* Content-Type is replaced by the default; the default Content-Type is added
\* when the caller supplied none; the other defaults fill the names the caller
\* left out, and nothing is added without non-empty data.
C10_HeaderMerge ==
  wr.phase # "none" =>
    LET body == /\ Has(wr.args, "data") /\ Len(wr.args.data) > 0
                /\ Arg(wr.args, "method", "GET") \in {"POST", "PUT"}
        computed == IF body THEN {"Content-Length", "Content-Type"} ELSE {}
    IN /\ DOMAIN wr.headers = DOMAIN DefaultHeaders \cup DOMAIN CallerHeaders \cup computed
       /\ \A k \in DOMAIN CallerHeaders :
            \/ wr.headers[k] = CallerHeaders[k]
            \/ body /\ k = "Content-Length"
            \/ body /\ k = "Content-Type" /\ CallerHeaders[k] = ""
       /\ \A k \in DOMAIN DefaultHeaders \ DOMAIN CallerHeaders :
            wr.headers[k] = DefaultHeaders[k]
       /\ body =>
            /\ wr.headers["Content-Length"] = ToString(ByteLength(wr.args.data))
            /\ wr.headers["Content-Type"] =
                 IF Has(CallerHeaders, "Content-Type") /\ CallerHeaders["Content-Type"] # ""
                 THEN CallerHeaders["Content-Type"] ELSE DefaultContentType

C10_Witness ==
  /\ call.tool = "web_request"
  /\ wr.phase = "sent"
  /\ Arg(wr.args, "method", "GET") = "POST"
  /\ Arg(wr.args, "data", << >>) = <<97, 233>>
  /\ Has(CallerHeaders, "User-Agent") /\ wr.headers["User-Agent"] = "caller-ua"
  /\ Has(CallerHeaders, "Content-Length") /\ wr.headers["Content-Length"] = "3"
  /\ Has(CallerHeaders, "Content-Type") /\ CallerHeaders["Content-Type"] = "text/plain"
  /\ wr.headers["Content-Type"] = "text/plain"

NumResults == Arg(call.args, "num_results", DefaultNumResults)

\* C11: a successful web_search returns at most min(num_results, 20) entries
\* in results, num_results being 10 when the caller passes none.
C11_AtMostTwentyResults ==
  Returned("web_search") /\ call.value.success =>
    Len(call.value.results) <= Min(NumResults, MaxNumResults)

C13_EndpointsDistinct ==
  Returned("analyze_javascript") /\ call.value.success =>
    LET endpoints == call.value.endpoints
    IN /\ \A i, j \in DOMAIN endpoints : i # j => endpoints[i] # endpoints[j]
       /\ call.value.total_endpoints_found = Cardinality(Range(endpoints))
       /\ \A k \in DOMAIN call.value.js_files :
            Range(call.value.js_files[k].endpoints_found) \subseteq Range(endpoints)

C13_Witness ==
  /\ Returned("analyze_javascript")
  /\ call.value.success
  /\ Len(call.value.js_files) = 2
  /\ "/api/a" \in Range(call.value.js_files[1].endpoints_found)
  /\ "/api/a" \in Range(call.value.js_files[2].endpoints_found)
  /\ Has(call.args, "search_patterns")
  /\ call.value.endpoints = <<"/api/a">>

\* C14: the result of analyze_javascript is success:true with one entry in
\* js_files for every external file whose fetch was attempted, a failed
\* fetch included.
C14_FailedFetchRecorded ==
  Returned("analyze_javascript") /\ call.value.success =>
    /\ Len(call.value.js_files) = Len(an.fetched)
    /\ \A i \in DOMAIN call.value.js_files :
         call.value.js_files[i].file = an.fetched[i].url

RECURSIVE ToWellFormed(_)
ToWellFormed(s) ==
  IF s = << >> THEN << >>
  ELSE IF Len(s) >= 2 /\ IsHigh(s[1]) /\ IsLow(s[2])
  THEN <<s[1], s[2]>> \o ToWellFormed(Tail(Tail(s)))
  ELSE IF IsHigh(Head(s)) \/ IsLow(Head(s)) THEN <<65533>> \o ToWellFormed(Tail(s))
  ELSE <<Head(s)>> \o ToWellFormed(Tail(s))

\* read_file has returned for the path of the last write_file, which
\* returned success:true
ReadAfterWrite ==
  /\ Returned("read_file")
  /\ written.done
  /\ written.path = PathResolve(call.args.file_path)

\* C16: after write_file(file_path, content) returned success:true, read_file
\* of the same path returns success:true with the content written.
C16_ReadReturnsWritten ==
  ReadAfterWrite => call.value.success /\ call.value.content = written.content

\* C16 (amended): after write_file(file_path, content) returned success:true,
\* read_file of the same path returns success:true with the content written
\* in which every surrogate without its pair is U+FFFD: the content written
\* itself when it is well-formed.
C16_ReadReturnsWellFormed ==
  ReadAfterWrite =>
    /\ call.value.success
    /\ call.value.content = ToWellFormed(written.content)
    /\ call.value.path = written.path

C16_Witness ==
  /\ ReadAfterWrite
  /\ written.created
  /\ written.path = "/w/d/e/f.txt"
  /\ written.content = <<233, 8364>>
  /\ call.value.success
  /\ call.value.content = <<233, 8364>>

\* C17: list_directory on a readable directory returns success:true with one
\* entry per directory entry, in the order of the enumeration, each of type
\* "directory" or "file", also when an entry cannot be stat'ed.
C17_OneEntryPerDirectoryEntry ==
  Returned("list_directory") /\ IsDirectory(disk, fsop.path) =>
    /\ call.value.success
    /\ Len(call.value.entries) = Cardinality(Children(disk, fsop.path))
    /\ \A i \in DOMAIN call.value.entries :
         /\ call.value.entries[i].name = BaseName(fsop.entries[i])
         /\ call.value.entries[i].type \in {"directory", "file"}

\* the command has ended with an exit code
Exited == Has(proc.exit, "code")

\* C18: execute_command returns {success:true, stdout, stderr,
\* working_directory} without exit_code exactly when the command exits with
\* code 0, and {success:false, ..., exit_code} with the numeric exit code
\* exactly when it exits non-zero, the output captured being kept.
C18_ExitCodeDecides ==
  Returned("execute_command") =>
    /\ (call.value.success /\ ~Has(call.value, "exit_code"))
         <=> (Exited /\ proc.exit.code = 0)
    /\ (/\ ~call.value.success
        /\ Has(call.value, "exit_code")
        /\ Has(call.value.exit_code, "number")
        /\ Exited
        /\ call.value.exit_code.number = proc.exit.code)
         <=> (Exited /\ proc.exit.code # 0)

\* C18 (amended): the same, for a command whose output stays within
\* maxBuffer; in every result the output captured is kept, trimmed.
C18_ExitCodeWithinBuffer ==
  Returned("execute_command") =>
    /\ (call.value.success /\ ~Has(call.value, "exit_code"))
         <=> (Exited /\ proc.exit.code = 0 /\ ~proc.overflow)
    /\ (/\ ~call.value.success
        /\ Has(call.value, "exit_code")
        /\ Has(call.value.exit_code, "number")
        /\ Exited
        /\ call.value.exit_code.number = proc.exit.code)
         <=> (Exited /\ proc.exit.code # 0 /\ ~proc.overflow)
    /\ call.value.stdout = Trim(proc.stdout)
    /\ call.value.stderr = Trim(proc.stderr)

C18_Witness ==
  /\ Returned("execute_command")
  /\ Exited
  /\ proc.exit.code = 127
  /\ ~call.value.success
  /\ call.value.exit_code = JsonNumber(127)
  /\ call.value.stdout = <<"o", "k">>
  /\ Len(proc.stdout) = 4

\* the text that base64_encode returns for t was handed to base64_decode,
\* which has returned
DecodedEncodingOf(t) ==
  /\ Returned("base64_decode")
  /\ call.args.encoded_text = base64EncodeHandler([text |-> t]).encoded

\* C19: for every text T, base64_decode of the encoded value returned by
\* base64_encode(T) returns success:true with decoded equal to T.
C19_RoundTrip ==
  \A t \in Texts : DecodedEncodingOf(t) => call.value.success /\ call.value.decoded = t

\* C19 (amended): for every text T, base64_decode of the encoded value
\* returned by base64_encode(T) returns success:true with decoded equal to T
\* in which every surrogate without its pair is U+FFFD: T itself when T is
\* well-formed.
C19_RoundTripWellFormed ==
  \A t \in Texts :
    DecodedEncodingOf(t) =>
      call.value.success /\ call.value.decoded = ToWellFormed(t)

C19_Witness ==
  /\ DecodedEncodingOf(<<55357, 56832, 233>>)
  /\ call.value.success
  /\ call.value.decoded = <<55357, 56832, 233>>
  /\ call.value.length = 3

\* the tools of each plugin, and the handler written for each tool
ToolsOf(plugin) ==
  CASE plugin = "command" -> {"execute_command"}
    [] plugin = "filesystem" -> {"read_file", "write_file", "list_directory", "get_cwd"}
    [] plugin = "web" -> {"web_request", "browse_website", "web_search"}
    [] plugin = "web-analysis" -> {"analyze_javascript", "probe_api_endpoints"}
    [] OTHER -> {"base64_encode", "base64_decode", "hash_text"}

HandlerOf(tool) ==
  CASE tool = "execute_command" -> "executeCommandHandler"
    [] tool = "read_file" -> "readFileHandler"
    [] tool = "write_file" -> "writeFileHandler"
    [] tool = "list_directory" -> "listDirectoryHandler"
    [] tool = "get_cwd" -> "getCwdHandler"
    [] tool = "web_request" -> "webRequestHandler"
    [] tool = "browse_website" -> "browseWebsiteHandler"
    [] tool = "web_search" -> "webSearchHandler"
    [] tool = "analyze_javascript" -> "analyzeJavaScriptHandler"
    [] tool = "probe_api_endpoints" -> "probeApiEndpointsHandler"
    [] tool = "base64_encode" -> "base64EncodeHandler"
    [] tool = "base64_decode" -> "base64DecodeHandler"
    [] OTHER -> "hashTextHandler"

RegisteredNames == [i \in DOMAIN registry.tools |-> registry.tools[i].descriptor.name]

\* C20: the init of a plugin registers each of its tools once, with its own
\* handler; after the init of all five plugins, in any order, the registry
\* has received 13 registrations with pairwise distinct tool names.
C20_EachToolRegisteredOnce ==
  /\ Range(RegisteredNames) = UNION {ToolsOf(p) : p \in registry.loaded}
  /\ \A i, j \in DOMAIN RegisteredNames : i # j => RegisteredNames[i] # RegisteredNames[j]
  /\ \A i \in DOMAIN registry.tools :
       registry.tools[i].handler = HandlerOf(RegisteredNames[i])
  /\ registry.loaded = Plugins => Len(registry.tools) = 13

C20_Witness ==
  /\ registry.loaded = Plugins
  /\ Len(registry.tools) = 13
  /\ RegisteredNames[1] = "base64_encode"
  /\ RegisteredNames[13] = "execute_command"

\* the variables of a handler's invocation, and what they are before the
\* handler has run
HandlerVariables == <<wr, br, ws, mw, an, fsop, proc>>

FreshVariables ==
  <<NoRequest, NoBrowse, NoSearch, NoMwRequest, NoAnalysis, NoFsOp, NoProcess>>

RelatedTaken == SelectSeq(ws.results, LAMBDA r : r.type = "related_topic")

\* C22: web_search runs the secondary scrape if and only if fewer than 3
\* results were gathered from the primary response, runs it at most once, and
\* the scrape only appends to the results gathered; at most num_results
\* related topics are taken from the primary response.
C22_ScrapeIffFewerThanThree ==
  Returned("web_search") /\ call.value.success =>
    /\ ws.scrapes = 1 <=> Len(ws.results) < 3
    /\ ws.scrapes <= 1
    /\ call.value.total_results >= Len(ws.results)
    /\ \A i \in DOMAIN call.value.results :
         i <= Len(ws.results) => call.value.results[i] = ws.results[i]
    /\ Len(RelatedTaken) <= NumResults

\* the URLs of the requests for external files made so far, in order
FetchedUrls == [i \in DOMAIN an.fetched |-> an.fetched[i].url]

\* C23: analyze_javascript fetches at most 10 external files, the first 10
\* script references of the page in document order, one after the other;
\* js_files_analyzed is the length of js_files and at most 10, and every
\* string of a file's endpoints_found is among the aggregated endpoints.
C23_FirstTenScripts ==
  /\ call.tool = "analyze_javascript" => Len(an.fetched) <= 10
  /\ Returned("analyze_javascript") /\ call.value.success =>
       /\ FetchedUrls = SubSeq(an.urls, 1, Min(10, Len(an.urls)))
       /\ call.value.js_files_analyzed = Len(call.value.js_files)
       /\ call.value.js_files_analyzed <= 10
       /\ \A i \in DOMAIN call.value.js_files :
            Range(call.value.js_files[i].endpoints_found)
              \subseteq Range(call.value.endpoints)

\* a page of 9 and then 11 script tags: the tenth file fetched is the first
\* of the second run, and one of the ten requests failed
C23_Witness ==
  /\ Returned("analyze_javascript")
  /\ call.value.success
  /\ Len(an.urls) = 20
  /\ Len(an.fetched) = 10
  /\ an.fetched[10].url = "http://a.test/l1.js"
  /\ call.value.js_files_analyzed = 9
  /\ call.value.js_files[1].endpoints_found = <<"/api/a", "/api/b">>

\* the step leaves the handler awaiting the same promise of makeWebRequest
SameMwPromise == an'.pc = an.pc /\ an'.i = an.i /\ mw' # NoMwRequest

\* what the first event settles a promise with: the result of 'end', or an
\* error of the request, of the timeout or of new URL
SettledValues(w) ==
  /\ Has(w.result, "success")
  /\ ~w.result.success =>
       w.result.error \in {"connect ECONNREFUSED", "getaddrinfo ENOTFOUND",
                           "read ECONNRESET", "socket hang up", "Request timeout",
                           TimeoutMessage, "Invalid URL"}

\* C24: the promise of web_request, and the one of makeWebRequest, is settled
\* by the first of the events end of the response, error of the request,
\* timeout and exception of new URL; every later event, the error after the
\* destroy of the timeout handler included, leaves the result as it is.
C24_FirstEventSettles ==
  /\ [](wr.settled => SettledValues(wr))
  /\ [](mw.settled => SettledValues(mw))
  /\ [][wr.settled /\ wr' # NoRequest => wr'.settled /\ wr'.result = wr.result]_vars
  /\ [][mw.settled /\ SameMwPromise => mw'.settled /\ mw'.result = mw.result]_vars

\* the socket of a request that timed out has been closed, by the error
\* event that follows req.destroy() or without one: the result is the one of
\* the timeout
C24_Witness ==
  /\ call.tool = "web_request"
  /\ wr.phase = "closed"
  /\ wr.settled
  /\ ~wr.result.success
  /\ wr.result.error = TimeoutMessage
  /\ call.state = "running"

\* C25: when write_file returns success:true, bytes_written is the byte
\* length of the content this invocation wrote, and when read_file returns
\* success:true, size is the byte length of the content returned, also when
\* other invocations of write_file on the same path run in between.
C25_SizeIsByteLength ==
  /\ Returned("write_file") /\ call.value.success =>
       call.value.bytes_written = Len(Utf8Encode(call.args.content))
  /\ Returned("read_file") /\ call.value.success =>
       call.value.size = Len(Utf8Encode(call.value.content))

====
